---- MODULE Spec2Model ----
(***************************************************************************)
(* Project Sentinel: the correlation store (data_correlator.py), the event *)
(* sink (event_generator.py), the detection engine (detection_engine.py),  *)
(* the ingestion handlers and the real-time loop (sentinel_system.py) and  *)
(* the stream reader (streaming_client.py).                                *)
(*                                                                         *)
(* Instants are integers (seconds).  A run's records carry one timestamp   *)
(* format: either every valid timestamp has a 'Z'/offset (tz_aware) or     *)
(* none has; datetime.now() is always naive.                               *)
(***************************************************************************)
EXTENDS Integers, Sequences, FiniteSets, TLC

VARIABLES
    pos_transactions,       \* DataCorrelator.pos_transactions: station -> deque
    rfid_readings,          \* DataCorrelator.rfid_readings
    queue_data,             \* DataCorrelator.queue_data
    product_recognition,    \* DataCorrelator.product_recognition
    inventory_snapshots,    \* DataCorrelator.inventory_snapshots
    station_status,         \* DataCorrelator.station_status
    last_activity,          \* DataCorrelator.last_activity
    events,                 \* EventGenerator.events
    event_counter,          \* EventGenerator.event_counter
    last_global_detection,  \* SentinelSystem.last_global_detection
    tz_aware,               \* the stream's timestamps carry an offset
    products_data,          \* DataParser.products_data: sku -> product
    lastOp,                 \* the operation that produced this state
    ingested,               \* number of operations performed so far
    corr,                   \* value returned by the last store query
    recent,                 \* value returned by the last get_events()[-10:]
    pc,                     \* thread -> position in the code it executes
    loc,                    \* thread -> its local variables
    inflight,               \* the add_data call the stream thread is inside
    seen,                   \* what the last concurrent reader observed
    now,                    \* the wall clock: time.time() and datetime.now()
    running,                \* StreamingClient.running
    socket_closed,          \* StreamingClient.socket has been closed locally
    lines,                  \* _stream_loop: lines[:-1] not yet dispatched
    delivered,              \* number of chunks the server has sent
    run_duration            \* start_real_time_processing's duration_seconds

storeVars == <<pos_transactions, rfid_readings, queue_data, product_recognition,
               inventory_snapshots, station_status, last_activity>>
sinkVars == <<events, event_counter>>
sysVars == <<last_global_detection, tz_aware, products_data>>
threadVars == <<pc, loc, inflight, seen>>
rtVars == <<now, running, socket_closed, lines, delivered, run_duration>>
vars == <<storeVars, sinkVars, sysVars, lastOp, ingested, corr, recent, threadVars, rtVars>>

----------------------------------------------------------------------------
(* Bounds of the model *)

TimeUnit == 10
MaxTick == 4
MaxIngest == 3
MaxQueryDepth == 2
MaxEvents == 12
MaxConcEvents == 3
MaxConcIngest == 2
MaxPipeline == 2

\* the instants records carry: a first one, one a unit later, one long after
Instants == {0, TimeUnit, MaxTick * TimeUnit}
Stations == {"SCC1", "SCC2"}
Threads == {"stream", "main"}

----------------------------------------------------------------------------
(* Python values *)

None == -1
NoneStr == "None"
EmptyDict == [k \in {} |-> <<>>]

\* a local variable: the value of e, computed once, handed on to F
Bind(e, F(_)) == CHOOSE r \in {F(v) : v \in {e}} : TRUE

\* dict.get(key, default)
DictGet(d, k, default) == IF k \in DOMAIN d THEN d[k] ELSE default
DictSet(d, k, v) == [x \in (DOMAIN d) \cup {k} |-> IF x = k THEN v ELSE d[x]]

\* datetime.fromisoformat(timestamp_str.replace('Z', '+00:00')):
\* result.ok is FALSE when the call raises
fromisoformat(ts) ==
    IF ts.kind = "iso" THEN [ok |-> TRUE, t |-> ts.t] ELSE [ok |-> FALSE, t |-> 0]

\* "not timestamp_str": None and the empty string are falsy
Falsy(ts) == ts.kind \in {"none", "empty"}

IsoTs(t) == [kind |-> "iso", t |-> t]
BadTs == {[kind |-> "none", t |-> 0], [kind |-> "garbage", t |-> 0]}

----------------------------------------------------------------------------
(* DataCorrelator *)

time_window == 30
time_range == 10
inventory_retention == 3600

Store == [pos_transactions |-> pos_transactions,
          rfid_readings |-> rfid_readings,
          queue_data |-> queue_data,
          product_recognition |-> product_recognition,
          inventory_snapshots |-> inventory_snapshots,
          station_status |-> station_status,
          last_activity |-> last_activity]

EmptyStore == [pos_transactions |-> EmptyDict,
               rfid_readings |-> EmptyDict,
               queue_data |-> EmptyDict,
               product_recognition |-> EmptyDict,
               inventory_snapshots |-> <<>>,
               station_status |-> EmptyDict,
               last_activity |-> EmptyDict]

BucketNames == {"pos_transactions", "rfid_readings", "queue_data", "product_recognition"}

\* station_data[station_id].append(data) on a defaultdict(deque)
deque_append(station_data, station_id, data) ==
    DictSet(station_data, station_id, Append(DictGet(station_data, station_id, <<>>), data))

\* _add_pos_transaction .. _add_product_recognition: append when station_id is truthy
add_to_bucket(st, bucket, data, timestamp) ==
    IF data.station_id # NoneStr
    THEN [st EXCEPT ![bucket] =
            deque_append(st[bucket], data.station_id,
                         [data EXCEPT !.parsed_timestamp = timestamp])]
    ELSE st

add_pos_transaction(st, data, timestamp) ==
    add_to_bucket(st, "pos_transactions", data, timestamp)
add_rfid_reading(st, data, timestamp) ==
    add_to_bucket(st, "rfid_readings", data, timestamp)
add_queue_data(st, data, timestamp) ==
    add_to_bucket(st, "queue_data", data, timestamp)
add_product_recognition(st, data, timestamp) ==
    add_to_bucket(st, "product_recognition", data, timestamp)

\* a retention that keeps the snapshot taken exactly one hour earlier
add_inventory_snapshot_inclusive(st, data, timestamp) ==
    LET appended == Append(st.inventory_snapshots,
                           [data EXCEPT !.parsed_timestamp = timestamp])
        cutoff == timestamp - inventory_retention
    IN [st EXCEPT !.inventory_snapshots =
            SelectSeq(appended, LAMBDA s : s.parsed_timestamp >= cutoff)]

\* _add_inventory_snapshot: append, then keep the snapshots later than timestamp - 1h
add_inventory_snapshot(st, data, timestamp) ==
    LET appended == Append(st.inventory_snapshots,
                           [data EXCEPT !.parsed_timestamp = timestamp])
        cutoff == timestamp - inventory_retention
    IN [st EXCEPT !.inventory_snapshots =
            SelectSeq(appended, LAMBDA s : s.parsed_timestamp > cutoff)]

\* an eviction that takes at most one entry from the head
popleft_once(dq, cutoff) ==
    IF dq # <<>> /\ Head(dq).parsed_timestamp < cutoff THEN Tail(dq) ELSE dq

\* while deque and deque[0]['parsed_timestamp'] < cutoff: deque.popleft()
RECURSIVE popleft_while(_, _)
popleft_while(dq, cutoff) ==
    IF dq # <<>> /\ Head(dq).parsed_timestamp < cutoff
    THEN popleft_while(Tail(dq), cutoff)
    ELSE dq

\* _cleanup_old_data
cleanup_old_data(st, current_timestamp) ==
    LET cutoff == current_timestamp - time_window
        clean(station_data) ==
            [s \in DOMAIN station_data |-> popleft_while(station_data[s], cutoff)]
    IN [st EXCEPT !.pos_transactions = clean(@),
                  !.rfid_readings = clean(@),
                  !.queue_data = clean(@),
                  !.product_recognition = clean(@)]

\* _cleanup_old_data, one pass of the outer loop: one of the four dicts
cleanup_dict(st, bucket, current_timestamp) ==
    [st EXCEPT ![bucket] =
        [s \in DOMAIN @ |-> popleft_while(@[s], current_timestamp - time_window)]]

\* add_data, lines 48-58: dispatch on the record type
add_dispatch(st, parsed_data, timestamp) ==
    CASE parsed_data.type = "pos_transaction" -> add_pos_transaction(st, parsed_data, timestamp)
      [] parsed_data.type = "rfid_reading" -> add_rfid_reading(st, parsed_data, timestamp)
      [] parsed_data.type = "queue_monitoring" -> add_queue_data(st, parsed_data, timestamp)
      [] parsed_data.type = "product_recognition" -> add_product_recognition(st, parsed_data, timestamp)
      [] parsed_data.type = "inventory_snapshot" -> add_inventory_snapshot(st, parsed_data, timestamp)
      [] OTHER -> st

\* a status map that only moves forward in time
update_status_if_later(st, parsed_data, timestamp) ==
    IF /\ parsed_data.station_id # NoneStr
       /\ timestamp >= DictGet(st.last_activity, parsed_data.station_id, timestamp)
    THEN [st EXCEPT !.station_status = DictSet(@, parsed_data.station_id, parsed_data.status),
                    !.last_activity = DictSet(@, parsed_data.station_id, timestamp)]
    ELSE st

\* add_data, lines 60-64: station status and last activity
update_status(st, parsed_data, timestamp) ==
    IF parsed_data.station_id # NoneStr
    THEN [st EXCEPT !.station_status = DictSet(@, parsed_data.station_id, parsed_data.status),
                    !.last_activity = DictSet(@, parsed_data.station_id, timestamp)]
    ELSE st

accepts_any(parsed_data) == TRUE

\* add_data accepts the record: the timestamp is present and parses
accepts(parsed_data) ==
    /\ ~Falsy(parsed_data.timestamp)
    /\ fromisoformat(parsed_data.timestamp).ok

\* add_data as a whole
add_data(st, parsed_data) ==
    IF ~accepts(parsed_data)
    THEN st
    ELSE LET timestamp == fromisoformat(parsed_data.timestamp).t
         IN cleanup_old_data(
                update_status(add_dispatch(st, parsed_data, timestamp),
                              parsed_data, timestamp),
                timestamp)

in_range_exclusive(ts, timestamp) ==
    timestamp - time_range < ts /\ ts < timestamp + time_range

\* start_time <= ts <= end_time
in_range(ts, timestamp) ==
    timestamp - time_range <= ts /\ ts <= timestamp + time_range

\* the loop "for tx in bucket.get(station_id, []): if in range: append"
RECURSIVE correlate_loop(_, _, _)
correlate_loop(rest, timestamp, acc) ==
    IF rest = <<>> THEN acc
    ELSE correlate_loop(Tail(rest), timestamp,
                        IF in_range(Head(rest).parsed_timestamp, timestamp)
                        THEN Append(acc, Head(rest)) ELSE acc)

find_correlations(st, station_id, timestamp) ==
    [b \in BucketNames |->
        correlate_loop(DictGet(st[b], station_id, <<>>), timestamp, <<>>)]

\* list(deque): the whole bucket
py_whole(seq, limit) == seq

\* list(deque)[-limit:]
py_last(seq, limit) ==
    IF limit = 0 \/ limit >= Len(seq) THEN seq
    ELSE SubSeq(seq, Len(seq) - limit + 1, Len(seq))

get_recent_data(st, station_id, data_type, limit) ==
    IF data_type \notin BucketNames THEN <<>>
    ELSE py_last(DictGet(st[data_type], station_id, <<>>), limit)

get_station_status(st, station_id) ==
    [status |-> DictGet(st.station_status, station_id, "Unknown"),
     last_activity |-> DictGet(st.last_activity, station_id, None)]

\* the stations that have an entry in one of the buckets now
stations_with_entries(st) ==
    {s \in (DOMAIN st.pos_transactions) \cup (DOMAIN st.rfid_readings)
            \cup (DOMAIN st.queue_data) \cup (DOMAIN st.product_recognition) :
        \E b \in BucketNames : DictGet(st[b], s, <<>>) # <<>>}

get_all_stations(st) ==
    (DOMAIN st.pos_transactions) \cup (DOMAIN st.rfid_readings)
        \cup (DOMAIN st.queue_data) \cup (DOMAIN st.product_recognition)

get_latest_inventory(st) ==
    IF st.inventory_snapshots # <<>>
    THEN st.inventory_snapshots[Len(st.inventory_snapshots)]
    ELSE [type |-> NoneStr]

\* d[key] on a defaultdict(deque): a key that is missing is inserted
after_getitem(d, key) == IF key \in DOMAIN d THEN d ELSE DictSet(d, key, <<>>)

\* the dict after d.get(key, default): nothing is inserted, also not into
\* a defaultdict
after_get(d, key) == d

\* a query that takes the station's entries out of the buckets it reads
after_find_correlations_draining(st, station_id) ==
    [b \in DOMAIN st |->
        IF b \in BucketNames /\ station_id \in DOMAIN st[b]
        THEN DictSet(st[b], station_id, <<>>) ELSE st[b]]

\* the store after find_correlations: one .get per bucket, the matching
\* entries are appended to fresh lists
after_find_correlations(st, station_id) ==
    [st EXCEPT !.pos_transactions = after_get(@, station_id),
               !.rfid_readings = after_get(@, station_id),
               !.queue_data = after_get(@, station_id),
               !.product_recognition = after_get(@, station_id)]

\* the store after get_recent_data: .get on the bucket, list(deque)[-limit:]
after_get_recent_data(st, station_id, data_type) ==
    IF data_type \notin BucketNames THEN st
    ELSE [st EXCEPT ![data_type] = after_get(@, station_id)]

\* the store after get_station_status: .get on the two maps
after_get_station_status(st, station_id) ==
    [st EXCEPT !.station_status = after_get(@, station_id),
               !.last_activity = after_get(@, station_id)]

\* get_all_stations reads keys() into a new set; get_latest_inventory
\* indexes the list
after_get_all_stations(st) == st
after_get_latest_inventory(st) == st

----------------------------------------------------------------------------
(* EventGenerator *)

DigitChars == <<"0", "1", "2", "3", "4", "5", "6", "7", "8", "9">>

\* the decimal digits of n, most significant first
RECURSIVE decimal(_)
decimal(n) ==
    IF n < 10 THEN <<DigitChars[n + 1]>>
    ELSE Append(decimal(n \div 10), DigitChars[(n % 10) + 1])

RECURSIVE zero_pad(_, _)
zero_pad(digits, width) ==
    IF Len(digits) >= width THEN digits ELSE zero_pad(<<"0">> \o digits, width)

\* f"E{self.event_counter:03d}"
format_event_id(n) == <<"E">> \o zero_pad(decimal(n), 3)

\* timestamp.isoformat()
isoformat(t) == [kind |-> "iso", t |-> t]

Sink == [events |-> events, event_counter |-> event_counter]

add_event_no_increment(sk, event_data, timestamp) ==
    [events |-> Append(sk.events,
                       [timestamp |-> isoformat(timestamp),
                        event_id |-> format_event_id(sk.event_counter),
                        event_data |-> event_data]),
     event_counter |-> sk.event_counter]

\* add_event: the id is formatted from the counter, the counter is
\* incremented, the event is appended
add_event(sk, event_data, timestamp) ==
    [events |-> Append(sk.events,
                       [timestamp |-> isoformat(timestamp),
                        event_id |-> format_event_id(sk.event_counter),
                        event_data |-> event_data]),
     event_counter |-> sk.event_counter + 1]

\* clear_events
clear_events(sk) == [events |-> <<>>, event_counter |-> 0]

\* get_events: a copy of the list
get_events(sk) == sk.events

\* the sink after get_events (a copy of the list is returned) and after
\* get_event_summary (a fresh dict of counts)
after_get_events(sk) == sk
after_get_event_summary(sk) == sk

\* get_dashboard_data: get_events()[-10:]
recent_events_limit == 10
recent_events(sk) == py_last(get_events(sk), recent_events_limit)

SetSink(sk) ==
    /\ events' = sk.events
    /\ event_counter' = sk.event_counter

\* dict.get(key, default)
Get(d, key, default) == IF key \in DOMAIN d THEN d[key] ELSE default

add_success_operation(sk, station_id, customer_id, product_sku, timestamp) ==
    add_event(sk, [event_name |-> "Success Operation",
                   station_id |-> station_id,
                   customer_id |-> customer_id,
                   product_sku |-> product_sku], timestamp)

\* add_detection_result: the finding mapped to the event format of its kind
detection_event_data(r) ==
    CASE r.event_name = "Scanner Avoidance" ->
            [event_name |-> "Scanner Avoidance",
             station_id |-> Get(r, "station_id", NoneStr),
             customer_id |-> Get(r, "customer_id", "Unknown"),
             product_sku |-> Get(r, "product_sku", NoneStr)]
      [] r.event_name = "Barcode Switching" ->
            [event_name |-> "Barcode Switching",
             station_id |-> Get(r, "station_id", NoneStr),
             customer_id |-> Get(r, "customer_id", "Unknown"),
             actual_sku |-> Get(r, "actual_sku", NoneStr),
             scanned_sku |-> Get(r, "scanned_sku", NoneStr)]
      [] r.event_name = "Weight Discrepancies" ->
            [event_name |-> "Weight Discrepancies",
             station_id |-> Get(r, "station_id", NoneStr),
             customer_id |-> Get(r, "customer_id", "Unknown"),
             product_sku |-> Get(r, "product_sku", NoneStr),
             expected_weight |-> Get(r, "expected_weight", None),
             actual_weight |-> Get(r, "actual_weight", None)]
      [] r.event_name = "Unexpected Systems Crash" ->
            [event_name |-> "Unexpected Systems Crash",
             station_id |-> Get(r, "station_id", NoneStr),
             duration_seconds |-> Get(r, "duration_seconds", 0)]
      [] r.event_name = "Long Wait Time" ->
            [event_name |-> "Long Wait Time",
             station_id |-> Get(r, "station_id", NoneStr),
             customer_id |-> Get(r, "customer_id", "Unknown"),
             wait_time_seconds |-> Get(r, "wait_time_seconds", None)]
      [] r.event_name = "Long Queue Length" ->
            [event_name |-> "Long Queue Length",
             station_id |-> Get(r, "station_id", NoneStr),
             num_of_customers |-> Get(r, "num_of_customers", None)]
      [] r.event_name = "Staffing Needs" ->
            [event_name |-> "Staffing Needs",
             station_id |-> Get(r, "station_id", "Unknown"),
             Staff_type |-> Get(r, "staff_type", "Cashier")]
      [] r.event_name = "Checkout Station Action" ->
            [event_name |-> "Checkout Station Action",
             station_id |-> Get(r, "station_id", "Unknown"),
             Action |-> Get(r, "action", "Open")]
      [] r.event_name = "Inventory Discrepancy" ->
            [event_name |-> "Inventory Discrepancy",
             SKU |-> Get(r, "SKU", NoneStr),
             Expected_Inventory |-> Get(r, "Expected_Inventory", None),
             Actual_Inventory |-> Get(r, "Actual_Inventory", None)]
      [] OTHER -> r

\* a log that does not take a finding it already holds
add_detection_result_once(sk, detection_result, timestamp) ==
    IF \E i \in 1..Len(sk.events) :
            sk.events[i].event_data = detection_event_data(detection_result)
    THEN sk
    ELSE add_event(sk, detection_event_data(detection_result), timestamp)

add_detection_result(sk, detection_result, timestamp) ==
    add_event(sk, detection_event_data(detection_result), timestamp)

\* for event in events: self.event_generator.add_detection_result(event, timestamp)
RECURSIVE add_detection_results(_, _, _)
add_detection_results(sk, results, timestamp) ==
    IF results = <<>> THEN sk
    ELSE Bind(add_detection_result(sk, Head(results), timestamp),
              LAMBDA added : add_detection_results(added, Tail(results), timestamp))

----------------------------------------------------------------------------
(* DataParser: the reference catalog *)

\* products_list.csv as load_reference_data reads it
Catalog ==
    [sku \in {"A", "B"} |->
        IF sku = "A" THEN [quantity |-> 100, weight |-> 200, price |-> 5]
        ELSE [quantity |-> 8, weight |-> 300, price |-> 20]]

get_product_info(products, sku) == DictGet(products, sku, [quantity |-> None])
has_product(products, sku) == sku \in DOMAIN products
get_expected_weight(products, sku) ==
    IF has_product(products, sku) THEN products[sku].weight ELSE None
\* a price assumed for a product the catalog does not have
assumed_price(products, sku) ==
    IF has_product(products, sku) THEN products[sku].price ELSE 100

get_expected_price(products, sku) ==
    IF has_product(products, sku) THEN products[sku].price ELSE None

----------------------------------------------------------------------------
(* DetectionEngine: the per-station detectors.  A detector body yields a   *)
(* finding, NoFinding (return None) or Raised (an exception was thrown);   *)
(* the try/except around each body turns Raised into NoFinding.            *)

WEIGHT_TOLERANCE == 50
LONG_QUEUE_THRESHOLD == 3
LONG_WAIT_THRESHOLD == 120
INVENTORY_VARIANCE_THRESHOLD == 5
MIN_INVENTORY_FOR_VARIANCE == 10
UNRESPONSIVE_AFTER == 600

NoFinding == [event_name |-> "None"]
Raised == [event_name |-> "Raised"]

propagate(result) == result

\* try: ... except Exception: log; return None
try_except(result) == IF result = Raised THEN NoFinding ELSE result

MaxOf(I) == CHOOSE i \in I : \A j \in I : i >= j
MinOf(I) == CHOOSE i \in I : \A j \in I : i <= j

\* "sku and sku != 'null'"
valid_sku(sku) == sku # NoneStr /\ sku # "" /\ sku # "null"

in_scan_area(rfid) == rfid.location = "IN_SCAN_AREA" /\ valid_sku(rfid.sku)

scanner_avoidance_body(st, station_id, timestamp) ==
    LET correlations == find_correlations(st, station_id, timestamp)
        rfids == correlations["rfid_readings"]
        txs == correlations["pos_transactions"]
        unmatched == {i \in 1..Len(rfids) :
                        /\ in_scan_area(rfids[i])
                        /\ \A j \in 1..Len(txs) :
                              txs[j].sku # rfids[i].sku}
    IN IF unmatched = {} THEN NoFinding
       ELSE [event_name |-> "Scanner Avoidance",
             station_id |-> station_id,
             product_sku |-> rfids[MinOf(unmatched)].sku,
             timestamp |-> isoformat(timestamp),
             confidence |-> 80,
             severity |-> "HIGH"]

detect_scanner_avoidance(st, station_id, timestamp) ==
    try_except(scanner_avoidance_body(st, station_id, timestamp))

\* a threshold that a price of exactly half the expected price meets
price_at_most_half(pos_price, expected_price) == 2 * pos_price <= expected_price

\* price_ratio = pos_price / expected_price < 0.5, for expected_price > 0
price_too_low(pos_price, expected_price) == 2 * pos_price < expected_price

barcode_switching_body(st, products, station_id, timestamp) ==
    LET correlations == find_correlations(st, station_id, timestamp)
        txs == correlations["pos_transactions"]
        rfids == correlations["rfid_readings"]
        hit(i, j) ==
            LET pos == txs[i]
                rfid == rfids[j]
                expected_price == get_expected_price(products, rfid.sku)
            IN /\ pos.sku # NoneStr /\ pos.sku # ""
               /\ pos.price # None
               /\ in_scan_area(rfid)
               /\ rfid.sku # pos.sku
               /\ expected_price # None /\ expected_price > 0
               /\ price_too_low(pos.price, expected_price)
        hits == {<<i, j>> \in (1..Len(txs)) \X (1..Len(rfids)) : hit(i, j)}
        first == CHOOSE h \in hits :
                    \A g \in hits : h[1] < g[1] \/ (h[1] = g[1] /\ h[2] <= g[2])
    IN IF hits = {} THEN NoFinding
       ELSE LET pos == txs[first[1]]
                rfid == rfids[first[2]]
                expected_price == get_expected_price(products, rfid.sku)
            IN [event_name |-> "Barcode Switching",
                station_id |-> station_id,
                actual_sku |-> rfid.sku,
                scanned_sku |-> pos.sku,
                timestamp |-> isoformat(timestamp),
                expected_price |-> expected_price,
                actual_price |-> pos.price,
                price_difference |-> expected_price - pos.price,
                confidence |-> 90,
                severity |-> "CRITICAL"]

detect_barcode_switching(st, products, station_id, timestamp) ==
    try_except(barcode_switching_body(st, products, station_id, timestamp))

\* the difference with its sign
signed(x) == x

Abs(x) == IF x < 0 THEN -x ELSE x

weight_discrepancies_body(st, products, station_id, timestamp) ==
    LET txs == find_correlations(st, station_id, timestamp)["pos_transactions"]
        hit(i) ==
            LET pos == txs[i]
                expected_weight == get_expected_weight(products, pos.sku)
            IN /\ pos.sku # NoneStr /\ pos.sku # ""
               /\ pos.weight_g # None
               /\ expected_weight # None /\ expected_weight > 0
               /\ Abs(pos.weight_g - expected_weight) > WEIGHT_TOLERANCE
        hits == {i \in 1..Len(txs) : hit(i)}
    IN IF hits = {} THEN NoFinding
       ELSE LET pos == txs[MinOf(hits)]
                expected_weight == get_expected_weight(products, pos.sku)
                weight_diff == Abs(pos.weight_g - expected_weight)
            IN [event_name |-> "Weight Discrepancies",
                station_id |-> station_id,
                product_sku |-> pos.sku,
                expected_weight |-> expected_weight,
                actual_weight |-> pos.weight_g,
                weight_difference |-> weight_diff,
                timestamp |-> isoformat(timestamp),
                confidence |-> 85,
                \* variance_percent = weight_diff / expected_weight * 100 > 20
                severity |-> IF weight_diff * 100 > 20 * expected_weight
                             THEN "HIGH" ELSE "MEDIUM"]

detect_weight_discrepancies(st, products, station_id, timestamp) ==
    try_except(weight_discrepancies_body(st, products, station_id, timestamp))

NoneTs == [kind |-> "none", t |-> 0]
\* the crash status alone
CrashStatusOnly == {"System Crash"}

CrashStatuses == {"System Crash", "Read Error", "Error", "Failed"}

system_crashes_body(st, station_id, timestamp) ==
    LET ss == get_station_status(st, station_id)
    IN IF ss.status \in CrashStatuses
       THEN [event_name |-> "Unexpected Systems Crash",
             station_id |-> station_id,
             timestamp |-> isoformat(timestamp),
             error_type |-> ss.status,
             last_activity |-> IF ss.last_activity # None
                               THEN isoformat(ss.last_activity) ELSE NoneTs,
             confidence |-> 100,
             severity |-> "CRITICAL"]
       ELSE IF /\ ss.last_activity # None
               /\ ss.status = "Active"
               /\ timestamp - ss.last_activity > UNRESPONSIVE_AFTER
       THEN [event_name |-> "Station Unresponsive",
             station_id |-> station_id,
             timestamp |-> isoformat(timestamp),
             inactive_duration |-> timestamp - ss.last_activity,
             last_activity |-> isoformat(ss.last_activity),
             confidence |-> 75,
             severity |-> "HIGH"]
       ELSE NoFinding

detect_system_crashes(st, station_id, timestamp) ==
    try_except(system_crashes_body(st, station_id, timestamp))

RECURSIVE SumSeq(_)
SumSeq(xs) == IF xs = <<>> THEN 0 ELSE Head(xs) + SumSeq(Tail(xs))

CountIf(xs, P(_)) == Cardinality({i \in 1..Len(xs) : P(xs[i])})

\* counts[-1] against counts[0] alone
trend_from_first(xs, up, down) ==
    IF xs[Len(xs)] > xs[1] THEN up
    ELSE IF xs[Len(xs)] < xs[1] THEN down
    ELSE "stable"

\* counts[-1] against counts[0] and counts[-2]
trend_of(xs, up, down) ==
    LET last == xs[Len(xs)]
        first == xs[1]
        prev == xs[Len(xs) - 1]
    IN IF last > first /\ last > prev THEN up
       ELSE IF last < first /\ last < prev THEN down
       ELSE "stable"

long_queue_length_body(st, station_id, timestamp) ==
    LET recent_queue_data == get_recent_data(st, station_id, "queue_data", 6)
        n == Len(recent_queue_data)
        latest_queue == recent_queue_data[n]
        customer_count == latest_queue.customer_count
        counts == [i \in 1..n |-> recent_queue_data[i].customer_count]
        \* a comparison or a sum with None raises TypeError
        raises == IF n >= 3 THEN \E i \in 1..n : counts[i] = None
                  ELSE customer_count = None
        trend == IF n >= 3 THEN trend_of(counts, "growing", "shrinking") ELSE "stable"
        duration_seconds ==
            IF n >= 3 THEN 5 * CountIf(counts, LAMBDA c : c >= LONG_QUEUE_THRESHOLD) ELSE 0
        severity ==
            IF customer_count >= 7 \/ (customer_count >= 5 /\ trend = "growing")
            THEN "CRITICAL"
            ELSE IF customer_count >= 5 \/ duration_seconds >= 25 THEN "HIGH"
            ELSE "MEDIUM"
    IN IF n = 0 THEN NoFinding
       ELSE IF raises THEN Raised
       ELSE IF customer_count >= LONG_QUEUE_THRESHOLD \/ duration_seconds >= 15
       THEN [event_name |-> "Long Queue Length",
             station_id |-> station_id,
             num_of_customers |-> customer_count,
             average_dwell_time |-> latest_queue.average_dwell_time,
             queue_trend |-> trend,
             duration_seconds |-> duration_seconds,
             timestamp |-> isoformat(timestamp),
             confidence |-> IF trend = "growing" THEN 90 ELSE 85,
             severity |-> severity]
       ELSE NoFinding

detect_long_queue_length(st, station_id, timestamp) ==
    try_except(long_queue_length_body(st, station_id, timestamp))

long_wait_times_body(st, station_id, timestamp) ==
    LET recent_queue_data == get_recent_data(st, station_id, "queue_data", 6)
        n == Len(recent_queue_data)
        latest_queue == recent_queue_data[n]
        dwell_time == latest_queue.average_dwell_time
        wait_times == [i \in 1..n |-> recent_queue_data[i].average_dwell_time]
        raises == IF n >= 3 THEN \E i \in 1..n : wait_times[i] = None
                  ELSE dwell_time = None
        \* avg_wait_time = sum(wait_times) / len(wait_times), kept as sum and n
        wait_sum == IF n >= 3 THEN SumSeq(wait_times) ELSE dwell_time
        wait_n == IF n >= 3 THEN n ELSE 1
        trend == IF n >= 3 THEN trend_of(wait_times, "increasing", "decreasing") ELSE "stable"
        duration_seconds ==
            IF n >= 3 THEN 5 * CountIf(wait_times, LAMBDA w : w >= LONG_WAIT_THRESHOLD) ELSE 0
        severity ==
            IF dwell_time >= 300 \/ (dwell_time >= 240 /\ trend = "increasing")
            THEN "CRITICAL"
            ELSE IF dwell_time >= 180 \/ wait_sum >= 200 * wait_n \/ duration_seconds >= 20
            THEN "HIGH"
            ELSE "MEDIUM"
    IN IF n = 0 THEN NoFinding
       ELSE IF raises THEN Raised
       ELSE IF dwell_time >= LONG_WAIT_THRESHOLD \/ wait_sum >= LONG_WAIT_THRESHOLD * wait_n
       THEN [event_name |-> "Long Wait Time",
             station_id |-> station_id,
             wait_time_seconds |-> dwell_time,
             customer_count |-> latest_queue.customer_count,
             wait_trend |-> trend,
             sustained_duration_seconds |-> duration_seconds,
             timestamp |-> isoformat(timestamp),
             confidence |-> IF trend = "increasing" THEN 90 ELSE 85,
             severity |-> severity]
       ELSE NoFinding

detect_long_wait_times(st, station_id, timestamp) ==
    try_except(long_wait_times_body(st, station_id, timestamp))

\* run_all_detections, lines 874-881: the list of the six results
station_detections(st, products, station_id, timestamp) ==
    <<detect_scanner_avoidance(st, station_id, timestamp),
      detect_barcode_switching(st, products, station_id, timestamp),
      detect_weight_discrepancies(st, products, station_id, timestamp),
      detect_system_crashes(st, station_id, timestamp),
      detect_long_queue_length(st, station_id, timestamp),
      detect_long_wait_times(st, station_id, timestamp)>>

\* run_all_detections: the six calls, then the findings that are not None.
\* An exception leaving one of the calls leaves run_all_detections.
run_all_detections(st, products, station_id, timestamp) ==
    Bind(<<detect_scanner_avoidance(st, station_id, timestamp),
           detect_barcode_switching(st, products, station_id, timestamp),
           detect_weight_discrepancies(st, products, station_id, timestamp),
           detect_system_crashes(st, station_id, timestamp),
           detect_long_queue_length(st, station_id, timestamp),
           detect_long_wait_times(st, station_id, timestamp)>>,
         LAMBDA detections :
            IF \E i \in 1..6 : detections[i] = Raised
            THEN [raised |-> TRUE, events |-> <<>>]
            ELSE [raised |-> FALSE,
                  events |-> SelectSeq(detections, LAMBDA d : d # NoFinding)])

----------------------------------------------------------------------------
(* DetectionEngine: the global detectors.  A body yields [raised, events]; *)
(* the try/except around each body turns an exception into [].             *)

NoEvents == [raised |-> FALSE, events |-> <<>>]
RaisedList == [raised |-> TRUE, events |-> <<>>]

propagate_list(result) == result

\* try: ... except Exception: log; return []
try_except_list(result) == IF result.raised THEN NoEvents ELSE result

\* variance >= limit
variance_at_least(diff, expected, limit) ==
    IF expected >= MIN_INVENTORY_FOR_VARIANCE
    THEN diff * 100 >= limit * expected
    ELSE diff * 10 >= limit

\* variance > limit, variance being diff / expected * 100 for expected >= 10
\* and diff * 10 below
variance_above(diff, expected, limit) ==
    IF expected >= MIN_INVENTORY_FOR_VARIANCE
    THEN diff * 100 > limit * expected
    ELSE diff * 10 > limit

inventory_finding(products, item, timestamp) ==
    LET expected_quantity == products[item.sku].quantity
        quantity_diff == Abs(item.quantity - expected_quantity)
    IN [event_name |-> "Inventory Discrepancy",
        SKU |-> item.sku,
        product_name |-> "Unknown",
        expected_inventory |-> expected_quantity,
        actual_inventory |-> item.quantity,
        difference |-> item.quantity - expected_quantity,
        timestamp |-> isoformat(timestamp),
        confidence |-> 80,
        severity |-> IF variance_above(quantity_diff, expected_quantity, 20) THEN "CRITICAL"
                     ELSE IF variance_above(quantity_diff, expected_quantity, 10) THEN "HIGH"
                     ELSE "MEDIUM"]

inventory_item_fires(products, item) ==
    /\ item.quantity # None
    /\ has_product(products, item.sku)
    /\ products[item.sku].quantity # None
    /\ products[item.sku].quantity > 0
    /\ variance_above(Abs(item.quantity - products[item.sku].quantity),
                      products[item.sku].quantity, INVENTORY_VARIANCE_THRESHOLD)

\* for sku, actual_quantity in inventory_data.items(): ...
RECURSIVE inventory_loop(_, _, _, _)
inventory_loop(products, items, timestamp, acc) ==
    IF items = <<>> THEN acc
    ELSE inventory_loop(products, Tail(items), timestamp,
            IF inventory_item_fires(products, Head(items))
            THEN Append(acc, inventory_finding(products, Head(items), timestamp))
            ELSE acc)

inventory_discrepancies_body(st, products, timestamp) ==
    IF st.inventory_snapshots = <<>> THEN NoEvents
    ELSE [raised |-> FALSE,
          events |-> inventory_loop(products, get_latest_inventory(st).inventory_data,
                                    timestamp, <<>>)]

detect_inventory_discrepancies(st, products, timestamp) ==
    try_except_list(inventory_discrepancies_body(st, products, timestamp))

\* the sum of f over the keys S
RECURSIVE SumOver(_, _)
SumOver(f, S) ==
    IF S = {} THEN 0
    ELSE LET x == CHOOSE x \in S : TRUE IN f[x] + SumOver(f, S \ {x})

staffing_needs_body(st, timestamp) ==
    LET stations == get_all_stations(st)
        total_stations == Cardinality(stations)
        recent_of(s) == get_recent_data(st, s, "queue_data", 6)
        latest(s) == recent_of(s)[Len(recent_of(s))]
        reporting == {s \in stations : recent_of(s) # <<>>}
        \* total_customers += None, None >= threshold: TypeError
        raises == \E s \in reporting :
                    \/ latest(s).customer_count = None
                    \/ latest(s).average_dwell_time = None
                    \/ /\ Len(recent_of(s)) >= 4
                       /\ \E i \in 1..Len(recent_of(s)) : recent_of(s)[i].customer_count = None
        total_customers == SumOver([s \in reporting |-> latest(s).customer_count], reporting)
        busy_stations == Cardinality({s \in reporting : latest(s).customer_count >= 2})
        high_wait_stations ==
            Cardinality({s \in reporting : latest(s).average_dwell_time >= LONG_WAIT_THRESHOLD})
        sustained_busy_stations ==
            Cardinality({s \in reporting :
                /\ Len(recent_of(s)) >= 4
                /\ CountIf(recent_of(s), LAMBDA q : q.customer_count >= 3) >= 3})
        \* busy_ratio >= 0.6 or sustained_ratio >= 0.5
        add_cashier == \/ 10 * busy_stations >= 6 * total_stations
                       \/ 2 * sustained_busy_stations >= total_stations
        cashier ==
            [event_name |-> "Staffing Needs",
             staff_type |-> "Cashier",
             action |-> "ADD",
             busy_stations |-> busy_stations,
             sustained_busy_stations |-> sustained_busy_stations,
             total_stations |-> total_stations,
             total_customers |-> total_customers,
             timestamp |-> isoformat(timestamp),
             confidence |-> IF 2 * sustained_busy_stations >= total_stations THEN 80 ELSE 75,
             severity |-> IF \/ 10 * busy_stations >= 8 * total_stations
                             \/ 10 * sustained_busy_stations >= 7 * total_stations
                          THEN "HIGH" ELSE "MEDIUM"]
        support ==
            [event_name |-> "Staffing Needs",
             staff_type |-> "Support Staff",
             action |-> "ADD",
             affected_stations |-> high_wait_stations,
             timestamp |-> isoformat(timestamp),
             confidence |-> 80,
             severity |-> "HIGH"]
    IN IF stations = {} THEN NoEvents
       ELSE IF raises THEN RaisedList
       ELSE [raised |-> FALSE,
             events |-> (IF add_cashier THEN <<cashier>> ELSE <<>>)
                        \o (IF high_wait_stations >= 2 THEN <<support>> ELSE <<>>)]

recommend_staffing_needs(st, timestamp) ==
    try_except_list(staffing_needs_body(st, timestamp))

\* the cap taken the wrong way round
larger_of(a, b) == IF a > b THEN a ELSE b

Min(a, b) == IF a < b THEN a ELSE b
Max(a, b) == IF a > b THEN a ELSE b

station_actions_body(st, timestamp) ==
    LET stations == get_all_stations(st)
        recent_of(s) == get_recent_data(st, s, "queue_data", 1)
        reporting == {s \in stations : recent_of(s) # <<>>}
        customer_count(s) == IF s \in reporting THEN recent_of(s)[1].customer_count ELSE 0
        raises == \E s \in reporting : customer_count(s) = None
        total_customers == SumOver([s \in reporting |-> customer_count(s)], reporting)
        active == {s \in stations : get_station_status(st, s).status = "Active"}
        active_stations == Cardinality(active)
        idle_stations == Cardinality({s \in active : customer_count(s) = 0})
        optimal_stations == Max(1, (total_customers + 4) \div 5)
        stations_to_close == Min(idle_stations - 1, active_stations - 2)
        open ==
            [event_name |-> "Checkout Station Action",
             action |-> "OPEN",
             recommended_stations |-> Min(optimal_stations - active_stations, 3),
             current_active_stations |-> active_stations,
             current_customers |-> total_customers,
             timestamp |-> isoformat(timestamp),
             confidence |-> 80,
             severity |-> "HIGH"]
        close ==
            [event_name |-> "Checkout Station Action",
             action |-> "CLOSE",
             recommended_stations |-> stations_to_close,
             current_active_stations |-> active_stations,
             current_customers |-> total_customers,
             timestamp |-> isoformat(timestamp),
             confidence |-> 70,
             severity |-> "LOW"]
    IN IF stations = {} THEN NoEvents
       ELSE IF raises THEN RaisedList
       ELSE IF active_stations = 0 THEN NoEvents
       \* avg_customers_per_station = total_customers / active_stations > 5
       ELSE IF total_customers > 5 * active_stations /\ optimal_stations > active_stations
       THEN [raised |-> FALSE, events |-> <<open>>]
       ELSE IF idle_stations >= 2 /\ active_stations > 2 /\ stations_to_close > 0
       THEN [raised |-> FALSE, events |-> <<close>>]
       ELSE NoEvents

recommend_station_actions(st, timestamp) ==
    try_except_list(station_actions_body(st, timestamp))

\* run_global_detections: the three lists, one after the other
run_global_detections(st, products, timestamp) ==
    Bind(<<detect_inventory_discrepancies(st, products, timestamp),
           recommend_staffing_needs(st, timestamp),
           recommend_station_actions(st, timestamp)>>,
         LAMBDA found :
            IF \E i \in 1..3 : found[i].raised THEN RaisedList
            ELSE [raised |-> FALSE,
                  events |-> found[1].events \o found[2].events \o found[3].events])

\* the store after the six per-station detectors: three find_correlations,
\* one get_station_status, two get_recent_data(.., 'queue_data', 6)
after_run_all_detections(st, station_id) ==
    Bind(after_find_correlations(
            after_find_correlations(after_find_correlations(st, station_id), station_id),
            station_id),
         LAMBDA correlated :
            after_get_recent_data(
                after_get_recent_data(after_get_station_status(correlated, station_id),
                                      station_id, "queue_data"),
                station_id, "queue_data"))

\* "for station_id in stations" of recommend_staffing_needs
RECURSIVE after_staffing_loop(_, _)
after_staffing_loop(st, stations) ==
    IF stations = {} THEN st
    ELSE LET station_id == CHOOSE x \in stations : TRUE
         IN after_staffing_loop(after_get_recent_data(st, station_id, "queue_data"),
                                stations \ {station_id})

\* "for station_id in stations" of recommend_station_actions and of
\* get_dashboard_data: get_station_status, get_recent_data(.., 'queue_data', 1)
RECURSIVE after_status_loop(_, _)
after_status_loop(st, stations) ==
    IF stations = {} THEN st
    ELSE LET station_id == CHOOSE x \in stations : TRUE
         IN after_status_loop(
                after_get_recent_data(after_get_station_status(st, station_id),
                                      station_id, "queue_data"),
                stations \ {station_id})

\* the store after the three global detectors
after_run_global_detections(st) ==
    Bind(after_get_latest_inventory(st), LAMBDA a :
        Bind(after_staffing_loop(after_get_all_stations(a), get_all_stations(a)),
             LAMBDA b : after_status_loop(after_get_all_stations(b), get_all_stations(b))))

----------------------------------------------------------------------------
(* Normalized records as DataParser produces them *)

ParsedRecord(type, ts, station, status) ==
    [type |-> type, timestamp |-> ts, station_id |-> station, status |-> status,
     parsed_timestamp |-> None,
     customer_id |-> NoneStr,
     sku |-> NoneStr, location |-> NoneStr, price |-> None, weight_g |-> None,
     customer_count |-> None, average_dwell_time |-> None,
     inventory_data |-> <<>>]

----------------------------------------------------------------------------
(* DataParser.parse_streaming_event and the raw events of the stream *)

NoData == [customer_id |-> NoneStr, sku |-> NoneStr, price |-> None, weight_g |-> None,
           location |-> NoneStr, customer_count |-> None, average_dwell_time |-> None,
           items |-> <<>>]

RawEvent(dataset, ts, station, status, data) ==
    [dataset |-> dataset,
     event |-> [timestamp |-> ts, station_id |-> station, status |-> status, data |-> data]]

NoneRec == [type |-> NoneStr]

parse_pos_transaction(payload) ==
    [ParsedRecord("pos_transaction", payload.timestamp, payload.station_id, payload.status)
        EXCEPT !.customer_id = payload.data.customer_id,
               !.sku = payload.data.sku,
               !.price = payload.data.price,
               !.weight_g = payload.data.weight_g]

parse_rfid_reading(payload) ==
    [ParsedRecord("rfid_reading", payload.timestamp, payload.station_id, payload.status)
        EXCEPT !.sku = payload.data.sku,
               !.location = payload.data.location]

parse_queue_monitoring(payload) ==
    [ParsedRecord("queue_monitoring", payload.timestamp, payload.station_id, payload.status)
        EXCEPT !.customer_count = payload.data.customer_count,
               !.average_dwell_time = payload.data.average_dwell_time]

parse_product_recognition(payload) ==
    ParsedRecord("product_recognition", payload.timestamp, payload.station_id, payload.status)

\* the parsed snapshot has no station_id and no status key
parse_inventory_snapshot(payload) ==
    [ParsedRecord("inventory_snapshot", payload.timestamp, NoneStr, NoneStr)
        EXCEPT !.inventory_data = payload.data.items]

\* a dataset that is not known is taken for a product recognition record
parse_with_default(event) ==
    CASE event.dataset = "POS_Transactions" -> parse_pos_transaction(event.event)
      [] event.dataset = "RFID_data" -> parse_rfid_reading(event.event)
      [] event.dataset = "Queue_monitor" -> parse_queue_monitoring(event.event)
      [] event.dataset = "Current_inventory_data" -> parse_inventory_snapshot(event.event)
      [] OTHER -> parse_product_recognition(event.event)

parse_streaming_event(event) ==
    CASE event.dataset = "POS_Transactions" -> parse_pos_transaction(event.event)
      [] event.dataset = "RFID_data" -> parse_rfid_reading(event.event)
      [] event.dataset = "Queue_monitor" -> parse_queue_monitoring(event.event)
      [] event.dataset = "Product_recognism" -> parse_product_recognition(event.event)
      [] event.dataset = "Current_inventory_data" -> parse_inventory_snapshot(event.event)
      [] OTHER -> NoneRec

StationTypes == {"pos_transaction", "rfid_reading", "queue_monitoring", "product_recognition"}

\* records offered to the store on its own: every kind, with and without a
\* station id, with valid and invalid timestamps
\* a snapshot, one an hour later less a unit, one an hour later
InventoryInstants == {TimeUnit, inventory_retention, inventory_retention + TimeUnit}

StoreInputs ==
    {ParsedRecord(ty, IsoTs(t), s, "Active") :
        ty \in StationTypes, t \in Instants, s \in Stations}
    \cup {ParsedRecord("queue_monitoring", IsoTs(t), "SCC1", "System Crash") :
            t \in {0, TimeUnit}}
    \cup {ParsedRecord("inventory_snapshot", IsoTs(t), NoneStr, NoneStr) :
            t \in InventoryInstants}
    \cup {ParsedRecord("pos_transaction", IsoTs(t), NoneStr, "Active") : t \in Instants}
    \cup {ParsedRecord("rfid_reading", ts, "SCC1", "Active") : ts \in BadTs}

NoOp == [op |-> "init", station |-> NoneStr, ts |-> [kind |-> "none", t |-> 0]]
NoCorr == [b \in BucketNames |-> <<>>]

SetStore(st) ==
    /\ pos_transactions' = st.pos_transactions
    /\ rfid_readings' = st.rfid_readings
    /\ queue_data' = st.queue_data
    /\ product_recognition' = st.product_recognition
    /\ inventory_snapshots' = st.inventory_snapshots
    /\ station_status' = st.station_status
    /\ last_activity' = st.last_activity

NoLoc == [event_id |-> <<>>, tmp |-> 0, event_data |-> [event_name |-> NoneStr]]
NoInflight == [rec |-> ParsedRecord(NoneStr, [kind |-> "none", t |-> 0], NoneStr, NoneStr),
               pre |-> EmptyStore]
NoSeen == [read |-> FALSE, store |-> EmptyStore, pre |-> EmptyStore, rec |-> NoInflight.rec]

StoreIsEmpty ==
    /\ pos_transactions = EmptyDict
    /\ rfid_readings = EmptyDict
    /\ queue_data = EmptyDict
    /\ product_recognition = EmptyDict
    /\ inventory_snapshots = <<>>
    /\ station_status = EmptyDict
    /\ last_activity = EmptyDict

\* DataCorrelator.__init__, EventGenerator.__init__, SentinelSystem.__init__
InitCommon ==
    /\ StoreIsEmpty
    /\ events = <<>>
    /\ event_counter = 0
    /\ lastOp = NoOp
    /\ ingested = 0
    /\ corr = NoCorr
    /\ recent = <<>>
    /\ pc = [t \in Threads |-> "idle"]
    /\ loc = [t \in Threads |-> NoLoc]
    /\ inflight = NoInflight
    /\ seen = NoSeen
    /\ now = 0
    /\ running = FALSE
    /\ socket_closed = FALSE
    /\ lines = <<>>
    /\ delivered = 0
    /\ run_duration = None

----------------------------------------------------------------------------
(* The store on its own: add_data and find_correlations *)

InitStore ==
    /\ InitCommon
    /\ last_global_detection = 0
    /\ tz_aware = TRUE
    /\ products_data = Catalog

AddData(p) ==
    /\ ingested < MaxIngest
    /\ SetStore(add_data(Store, p))
    /\ lastOp' = [op |-> "add_data", station |-> p.station_id, ts |-> p.timestamp,
                  type |-> p.type, status |-> p.status]
    /\ ingested' = ingested + 1
    /\ corr' = NoCorr
    /\ UNCHANGED <<rtVars, sinkVars, sysVars, recent, threadVars>>

FindCorrelations(station_id, timestamp) ==
    /\ ingested <= MaxQueryDepth
    /\ lastOp.op # "find_correlations"
    /\ corr' = find_correlations(Store, station_id, timestamp)
    /\ lastOp' = [op |-> "find_correlations", station |-> station_id,
                  ts |-> IsoTs(timestamp)]
    /\ UNCHANGED <<rtVars, storeVars, sinkVars, sysVars, ingested, recent, threadVars>>

StoreIngest == \E p \in StoreInputs : AddData(p)
StoreQuery == \E s \in Stations, t \in Instants : FindCorrelations(s, t)

NextStore == StoreIngest \/ StoreQuery

SpecStore == InitStore /\ [][NextStore]_vars

Bucket(b, s) == DictGet(Store[b], s, <<>>)

\* C1: immediately after the ingest of a record with timestamp T for station
\* S, no bucket of S holds an entry with a timestamp earlier than T - window
\* (whatever the arrival order).
C1_NoStaleEntryAfterIngest ==
    (lastOp.op = "add_data" /\ lastOp.ts.kind = "iso" /\ lastOp.station # NoneStr) =>
        \A b \in BucketNames :
            \A i \in 1..Len(Bucket(b, lastOp.station)) :
                Bucket(b, lastOp.station)[i].parsed_timestamp >= lastOp.ts.t - 30

\* the k-th smallest element of a finite set of integers
KthOf(I, k) == CHOOSE i \in I : Cardinality({j \in I : j < i}) = k - 1

\* C2: find_correlations(S, T) returns, per bucket, exactly the entries of S
\* in the store with T-10 <= t <= T+10, in store order, none of another
\* station; for a station never seen it returns four empty lists.
C2_CorrelationsExact ==
    lastOp.op = "find_correlations" =>
        /\ DOMAIN corr = BucketNames
        /\ \A b \in BucketNames :
            LET bucket == Bucket(b, lastOp.station)
                Idx == {i \in 1..Len(bucket) :
                          /\ bucket[i].parsed_timestamp >= lastOp.ts.t - 10
                          /\ bucket[i].parsed_timestamp <= lastOp.ts.t + 10}
            IN /\ Len(corr[b]) = Cardinality(Idx)
               /\ \A k \in 1..Len(corr[b]) :
                    /\ corr[b][k] = bucket[KthOf(Idx, k)]
                    /\ corr[b][k].station_id = lastOp.station
        /\ (lastOp.station \notin get_all_stations(Store) => corr = NoCorr)

\* a query that returned some entries of a bucket and left others out
C2_Witness ==
    /\ lastOp.op = "find_correlations"
    /\ \E b \in BucketNames :
        /\ Len(corr[b]) >= 1
        /\ Len(corr[b]) < Len(Bucket(b, lastOp.station))

\* C12: after every successful ingest of a record carrying a station id S,
\* with status s and timestamp T, get_station_status(S) is exactly (s, T),
\* whatever the previous status and even if T is earlier than the previous
\* last activity; a record without a station id changes no station's status
\* or last activity.
C12_StatusOverwrittenByLatestArrival ==
    /\ [](lastOp.op = "add_data" /\ lastOp.ts.kind = "iso" /\ lastOp.station # NoneStr =>
            get_station_status(Store, lastOp.station) =
                [status |-> lastOp.status, last_activity |-> lastOp.ts.t])
    /\ [][lastOp'.op = "add_data" /\ lastOp'.station = NoneStr =>
            station_status' = station_status /\ last_activity' = last_activity]_vars

\* a crash record arrived for a station whose bucket holds a later, active record
C12_Witness ==
    /\ lastOp.op = "add_data"
    /\ lastOp.status = "System Crash"
    /\ \E i \in 1..Len(Bucket("queue_data", lastOp.station)) :
          /\ Bucket("queue_data", lastOp.station)[i].parsed_timestamp > lastOp.ts.t
          /\ Bucket("queue_data", lastOp.station)[i].status = "Active"

SnapshotTimes == {inventory_snapshots[i].parsed_timestamp : i \in 1..Len(inventory_snapshots)}

\* C13: after any sequence of inventory-snapshot ingests, in any timestamp
\* order, get_latest_inventory returns the retained snapshot with the
\* greatest timestamp, and None only when no snapshot is retained.
C13_LatestInventoryIsGreatest ==
    IF inventory_snapshots = <<>>
    THEN get_latest_inventory(Store) = [type |-> NoneStr]
    ELSE /\ get_latest_inventory(Store).type = "inventory_snapshot"
         /\ get_latest_inventory(Store).parsed_timestamp = MaxOf(SnapshotTimes)

\* C14: right after the ingest of an inventory snapshot with timestamp T the
\* history contains that snapshot and every retained snapshot is strictly
\* later than T - 1 hour; the ingest of any other record leaves the history
\* unchanged.
C14_InventoryRetention ==
    /\ [](lastOp.op = "add_data" /\ lastOp.type = "inventory_snapshot"
            /\ lastOp.ts.kind = "iso" =>
            /\ inventory_snapshots # <<>>
            /\ inventory_snapshots[Len(inventory_snapshots)].parsed_timestamp = lastOp.ts.t
            /\ \A i \in 1..Len(inventory_snapshots) :
                  inventory_snapshots[i].parsed_timestamp > lastOp.ts.t - 3600)
    /\ [][lastOp'.op = "add_data" /\ lastOp'.type # "inventory_snapshot" =>
            inventory_snapshots' = inventory_snapshots]_vars

\* a snapshot taken exactly one hour before the one ingested was dropped,
\* one taken later than that was kept
C14_Witness ==
    /\ lastOp.op = "add_data"
    /\ lastOp.type = "inventory_snapshot"
    /\ lastOp.ts.t = inventory_retention + TimeUnit
    /\ ingested = 3
    /\ Len(inventory_snapshots) = 2
    /\ inventory_snapshots[1].parsed_timestamp = inventory_retention

----------------------------------------------------------------------------
(* SentinelSystem: the ingestion handlers.  A handler's outcome is the new *)
(* store, sink and last_global_detection, with the detection runs it made: *)
(* runs lists the (station, instant) of each run_all_detections call and   *)
(* global_runs the instants of each run_global_detections call.            *)

global_detection_interval == 60

System == [store |-> Store, sink |-> Sink, last_global_detection |-> last_global_detection,
           runs |-> <<>>, global_runs |-> <<>>]

\* "if station_id and timestamp_str"
has_station_and_timestamp(parsed_data) ==
    parsed_data.station_id # NoneStr /\ ~Falsy(parsed_data.timestamp)

\* _run_station_detections
run_station_detections(sys, products, station_id, timestamp) ==
    Bind(run_all_detections(sys.store, products, station_id, timestamp),
         LAMBDA r :
            [sys EXCEPT !.runs = Append(@, [station |-> station_id, t |-> timestamp]),
                        !.sink = IF r.raised THEN @
                                 ELSE add_detection_results(@, r.events, timestamp)])

\* _run_global_detections; comparable is FALSE when timestamp is an aware
\* datetime: subtracting the naive last_global_detection raises TypeError
run_global_detections_due(sys, products, timestamp, comparable) ==
    IF ~comparable THEN sys
    ELSE IF timestamp - sys.last_global_detection >= global_detection_interval
    THEN Bind(run_global_detections(sys.store, products, timestamp),
              LAMBDA r :
                IF r.raised
                THEN [sys EXCEPT !.global_runs = Append(@, timestamp)]
                ELSE [sys EXCEPT !.global_runs = Append(@, timestamp),
                                 !.sink = add_detection_results(@, r.events, timestamp),
                                 !.last_global_detection = timestamp])
    ELSE sys

\* a handler that runs the station detectors on the store as it is before
\* the record is added
detect_before_ingest(sys, products, event) ==
    Bind(parse_streaming_event(event), LAMBDA parsed_data :
        IF parsed_data = NoneRec THEN sys
        ELSE Bind(IF has_station_and_timestamp(parsed_data)
                     /\ fromisoformat(parsed_data.timestamp).ok
                  THEN run_station_detections(sys, products, parsed_data.station_id,
                                              fromisoformat(parsed_data.timestamp).t)
                  ELSE sys,
                  LAMBDA detected : [detected EXCEPT !.store = add_data(@, parsed_data)]))

\* the part the station handlers share: parse, add_data, then the station
\* detectors when the record has a station id and a timestamp that parses
ingest_and_detect(sys, products, event) ==
    Bind(parse_streaming_event(event), LAMBDA parsed_data :
        IF parsed_data = NoneRec THEN sys
        ELSE Bind([sys EXCEPT !.store = add_data(@, parsed_data)], LAMBDA stored :
            IF has_station_and_timestamp(parsed_data)
               /\ fromisoformat(parsed_data.timestamp).ok
            THEN run_station_detections(stored, products, parsed_data.station_id,
                                        fromisoformat(parsed_data.timestamp).t)
            ELSE stored))

\* a handler that reports success only when the detectors found nothing
process_pos_transaction_clean(sys, products, event) ==
    Bind(parse_streaming_event(event), LAMBDA parsed_data :
        Bind(ingest_and_detect(sys, products, event), LAMBDA detected :
            IF /\ parsed_data # NoneRec
               /\ has_station_and_timestamp(parsed_data)
               /\ fromisoformat(parsed_data.timestamp).ok
               /\ parsed_data.status = "Active"
               /\ detected.sink = sys.sink
            THEN [detected EXCEPT !.sink =
                     add_success_operation(@, parsed_data.station_id,
                                           parsed_data.customer_id, parsed_data.sku,
                                           fromisoformat(parsed_data.timestamp).t)]
            ELSE detected))

process_pos_transaction(sys, products, event) ==
    Bind(parse_streaming_event(event), LAMBDA parsed_data :
        Bind(ingest_and_detect(sys, products, event), LAMBDA detected :
            IF /\ parsed_data # NoneRec
               /\ has_station_and_timestamp(parsed_data)
               /\ fromisoformat(parsed_data.timestamp).ok
               /\ parsed_data.status = "Active"
            THEN [detected EXCEPT !.sink =
                     add_success_operation(@, parsed_data.station_id,
                                           parsed_data.customer_id, parsed_data.sku,
                                           fromisoformat(parsed_data.timestamp).t)]
            ELSE detected))

process_rfid_reading(sys, products, event) == ingest_and_detect(sys, products, event)

process_queue_monitoring(sys, products, event) == ingest_and_detect(sys, products, event)

\* _process_product_recognition: parse and add_data, nothing else
process_product_recognition(sys, products, event) ==
    Bind(parse_streaming_event(event), LAMBDA parsed_data :
        IF parsed_data = NoneRec THEN sys
        ELSE [sys EXCEPT !.store = add_data(@, parsed_data)])

process_inventory_snapshot(sys, products, aware, event) ==
    Bind(parse_streaming_event(event), LAMBDA parsed_data :
        IF parsed_data = NoneRec THEN sys
        ELSE Bind([sys EXCEPT !.store = add_data(@, parsed_data)], LAMBDA stored :
            IF ~Falsy(parsed_data.timestamp) /\ fromisoformat(parsed_data.timestamp).ok
            THEN run_global_detections_due(stored, products,
                                           fromisoformat(parsed_data.timestamp).t, ~aware)
            ELSE stored))

\* StreamingClient._process_event: the callback registered for the dataset
dispatch(sys, products, aware, event) ==
    CASE event.dataset = "POS_Transactions" -> process_pos_transaction(sys, products, event)
      [] event.dataset = "RFID_data" -> process_rfid_reading(sys, products, event)
      [] event.dataset = "Queue_monitor" -> process_queue_monitoring(sys, products, event)
      [] event.dataset = "Product_recognism" -> process_product_recognition(sys, products, event)
      [] event.dataset = "Current_inventory_data" ->
            process_inventory_snapshot(sys, products, aware, event)
      [] OTHER -> sys

----------------------------------------------------------------------------
(* The ingestion pipeline: one handler call per step *)

PipelineInstants == {0, TimeUnit}
ValidTs == {IsoTs(t) : t \in PipelineInstants}
PipelineTs == ValidTs \cup {[kind |-> "garbage", t |-> 0]}

PosEvents ==
    {RawEvent("POS_Transactions", ts, "SCC1", "Active",
              [NoData EXCEPT !.customer_id = "C001", !.sku = "A", !.price = 5,
                             !.weight_g = 200]) : ts \in PipelineTs}
    \cup {RawEvent("POS_Transactions", [kind |-> "none", t |-> 0], "SCC1", "Active",
                   [NoData EXCEPT !.customer_id = "C001", !.sku = "A", !.price = 5,
                                  !.weight_g = 200])}
RfidEvents ==
    {RawEvent("RFID_data", ts, "SCC1", "Active",
              [NoData EXCEPT !.sku = "B", !.location = "IN_SCAN_AREA"]) : ts \in PipelineTs}
QueueEvents ==
    {RawEvent("Queue_monitor", ts, s, "Active",
              [NoData EXCEPT !.customer_count = c[1], !.average_dwell_time = c[2]]) :
        ts \in ValidTs, s \in Stations, c \in {<<None, 130>>, <<4, 30>>}}
    \cup {RawEvent("Queue_monitor", [kind |-> "garbage", t |-> 0], "SCC1", "Active",
                   [NoData EXCEPT !.customer_count = 4, !.average_dwell_time = 30])}
RecognitionEvents ==
    {RawEvent("Product_recognism", ts, "SCC2", st, NoData) :
        ts \in ValidTs, st \in {"Active", "System Crash"}}
    \cup {RawEvent("Product_recognism", [kind |-> "garbage", t |-> 0], "SCC2", "Active",
                   NoData)}
InventoryEvents ==
    {RawEvent("Current_inventory_data", ts, NoneStr, NoneStr,
              [NoData EXCEPT !.items = <<[sku |-> "A", quantity |-> 94]>>]) : ts \in PipelineTs}

\* last_global_detection is datetime.now() at construction: one interval
\* before the instant 0 of the records, or at it
Init ==
    /\ InitCommon
    /\ last_global_detection \in {0 - global_detection_interval, 0}
    /\ tz_aware \in BOOLEAN
    /\ products_data = Catalog

Handle(name, event) ==
    \E sys \in {System} :
    \E parsed_data \in {parse_streaming_event(event)} :
    \E out \in {dispatch(sys, products_data, tz_aware, event)} :
       /\ ingested < MaxPipeline
       /\ ingested' = ingested + 1
       /\ SetStore(out.store)
       /\ SetSink(out.sink)
       /\ last_global_detection' = out.last_global_detection
       /\ lastOp' = [op |-> name,
                     station |-> parsed_data.station_id,
                     type |-> parsed_data.type,
                     ts |-> parsed_data.timestamp,
                     runs |-> out.runs,
                     global_runs |-> out.global_runs]
       /\ UNCHANGED <<rtVars, tz_aware, products_data, corr, recent, threadVars>>

ProcessPosTransaction == \E e \in PosEvents : Handle("process_pos_transaction", e)
ProcessRfidReading == \E e \in RfidEvents : Handle("process_rfid_reading", e)
ProcessQueueMonitoring == \E e \in QueueEvents : Handle("process_queue_monitoring", e)
ProcessProductRecognition ==
    \E e \in RecognitionEvents : Handle("process_product_recognition", e)
ProcessInventorySnapshot ==
    \E e \in InventoryEvents : Handle("process_inventory_snapshot", e)

Next ==
    \/ ProcessPosTransaction
    \/ ProcessRfidReading
    \/ ProcessQueueMonitoring
    \/ ProcessProductRecognition
    \/ ProcessInventorySnapshot

Spec == Init /\ [][Next]_vars

HandlerNames == {"process_pos_transaction", "process_rfid_reading",
                 "process_queue_monitoring", "process_product_recognition",
                 "process_inventory_snapshot"}

\* C6: the ingest of a record whose timestamp is missing or does not parse
\* changes nothing: the buckets, the inventory history, the status and
\* last-activity maps, the event log and the global-detection instant stay
\* as they were, and no detector runs for it.
C6_InvalidTimestampChangesNothing ==
    [][(lastOp'.op \in HandlerNames /\ lastOp'.ts.kind # "iso") =>
            /\ storeVars' = storeVars
            /\ sinkVars' = sinkVars
            /\ last_global_detection' = last_global_detection
            /\ lastOp'.runs = <<>>
            /\ lastOp'.global_runs = <<>>]_vars

\* a record without a valid timestamp was handled while the store held entries
C6_Witness ==
    /\ lastOp.op \in HandlerNames
    /\ lastOp.ts.kind # "iso"
    /\ get_all_stations(Store) # {}
    /\ events # <<>>

StationBodies(st, products, s, t) ==
    <<scanner_avoidance_body(st, s, t),
      barcode_switching_body(st, products, s, t),
      weight_discrepancies_body(st, products, s, t),
      system_crashes_body(st, s, t),
      long_queue_length_body(st, s, t),
      long_wait_times_body(st, s, t)>>

GlobalBodies(st, products, t) ==
    <<inventory_discrepancies_body(st, products, t),
      staffing_needs_body(st, t),
      station_actions_body(st, t)>>

RECURSIVE Concat(_)
Concat(lists) == IF lists = <<>> THEN <<>> ELSE Head(lists) \o Concat(Tail(lists))

\* C7: when a per-station detector fails inside run_all_detections, the call
\* does not raise, the failing detector contributes nothing and every other
\* detector contributes exactly the finding it yields on its own; the same
\* for the three global detectors in run_global_detections.
C7_DetectorFailuresIsolated ==
    \A s \in Stations, t \in PipelineInstants :
        LET bodies == StationBodies(Store, products_data, s, t)
            r == run_all_detections(Store, products_data, s, t)
            gbodies == GlobalBodies(Store, products_data, t)
            g == run_global_detections(Store, products_data, t)
        IN /\ (\E i \in 1..6 : bodies[i] = Raised) =>
                /\ ~r.raised
                /\ r.events = SelectSeq(bodies, LAMBDA d : d # Raised /\ d # NoFinding)
           /\ (\E i \in 1..3 : gbodies[i].raised) =>
                /\ ~g.raised
                /\ g.events = Concat([i \in 1..3 |->
                                IF gbodies[i].raised THEN <<>> ELSE gbodies[i].events])

\* the handler ran the station detectors on a store where the queue-length
\* detector fails (null customer_count) and the wait-time detector fires
C7_Witness ==
    /\ lastOp.op = "process_queue_monitoring"
    /\ lastOp.runs # <<>>
    /\ LET s == lastOp.runs[1].station
           t == lastOp.runs[1].t
       IN /\ long_queue_length_body(Store, s, t) = Raised
          /\ long_wait_times_body(Store, s, t).event_name = "Long Wait Time"
          /\ events # <<>>
          /\ events[Len(events)].event_data.event_name = "Long Wait Time"

\* C8: for every record of one of the four per-station kinds that carries a
\* station id and a valid timestamp T, the six per-station detectors run
\* exactly once, for that station, with instant T, right after the ingest.
C8_StationDetectorsRunOncePerRecord ==
    (/\ lastOp.op \in HandlerNames
     /\ lastOp.type \in StationTypes
     /\ lastOp.station # NoneStr
     /\ lastOp.ts.kind = "iso") =>
        lastOp.runs = <<[station |-> lastOp.station, t |-> lastOp.ts.t]>>

----------------------------------------------------------------------------
(* The read paths: the queries of the store, the detectors run on their    *)
(* own, and the dashboard query, between the handler calls of a pipeline.  *)

QueryEvents ==
    {RawEvent("POS_Transactions", IsoTs(0), "SCC1", "Active",
              [NoData EXCEPT !.customer_id = "C001", !.sku = "A", !.price = 5,
                             !.weight_g = 200]),
     RawEvent("RFID_data", IsoTs(0), "SCC1", "Active",
              [NoData EXCEPT !.sku = "B", !.location = "IN_SCAN_AREA"]),
     RawEvent("Queue_monitor", IsoTs(TimeUnit), "SCC2", "Active",
              [NoData EXCEPT !.customer_count = 4, !.average_dwell_time = 30]),
     RawEvent("Product_recognism", IsoTs(0), "SCC2", "System Crash", NoData),
     RawEvent("Current_inventory_data", IsoTs(0), NoneStr, NoneStr,
              [NoData EXCEPT !.items = <<[sku |-> "A", quantity |-> 94]>>])}

\* the callback sentinel_system registers for the dataset
HandlerOf(event) ==
    CASE event.dataset = "POS_Transactions" -> "process_pos_transaction"
      [] event.dataset = "RFID_data" -> "process_rfid_reading"
      [] event.dataset = "Queue_monitor" -> "process_queue_monitoring"
      [] event.dataset = "Product_recognism" -> "process_product_recognition"
      [] event.dataset = "Current_inventory_data" -> "process_inventory_snapshot"

ReadPaths == {"find_correlations", "get_recent_data", "get_station_status",
              "get_all_stations", "get_latest_inventory", "run_all_detections",
              "run_global_detections", "get_dashboard_data"}

\* the stations of the stream and one no record ever names
QueryStations == Stations \cup {"SCC9"}

\* get_dashboard_data: get_all_stations, get_events, the loop over the
\* stations, get_events and get_event_summary
after_get_dashboard_data(sys) ==
    [sys EXCEPT !.store = after_status_loop(after_get_all_stations(@), get_all_stations(@)),
                !.sink = after_get_event_summary(after_get_events(after_get_events(@)))]

\* the store and the sink after a call of the read path
after_read(path, sys, station_id) ==
    CASE path = "find_correlations" ->
            [sys EXCEPT !.store = after_find_correlations(@, station_id)]
      [] path = "get_recent_data" ->
            [sys EXCEPT !.store = after_get_recent_data(@, station_id, "queue_data")]
      [] path = "get_station_status" ->
            [sys EXCEPT !.store = after_get_station_status(@, station_id)]
      [] path = "get_all_stations" -> [sys EXCEPT !.store = after_get_all_stations(@)]
      [] path = "get_latest_inventory" ->
            [sys EXCEPT !.store = after_get_latest_inventory(@)]
      [] path = "run_all_detections" ->
            [sys EXCEPT !.store = after_run_all_detections(@, station_id)]
      [] path = "run_global_detections" ->
            [sys EXCEPT !.store = after_run_global_detections(@)]
      [] path = "get_dashboard_data" -> after_get_dashboard_data(sys)

InitQuery ==
    /\ InitCommon
    /\ last_global_detection = 0 - global_detection_interval
    /\ tz_aware = FALSE
    /\ products_data = Catalog

QueryIngest == \E e \in QueryEvents : Handle(HandlerOf(e), e)

Query(path, station_id) ==
    \E sys \in {System} :
    \E out \in {after_read(path, sys, station_id)} :
        /\ SetStore(out.store)
        /\ SetSink(out.sink)
        /\ recent' = IF path = "get_dashboard_data" THEN recent_events(out.sink) ELSE recent
        /\ lastOp' = [op |-> "query", path |-> path, station |-> station_id]
        /\ UNCHANGED <<rtVars, sysVars, ingested, corr, threadVars>>

QueryRead == \E path \in ReadPaths, station_id \in QueryStations : Query(path, station_id)

\* events of a dataset no callback is registered for: another name, a known
\* name in another case, no name
UnknownEvents ==
    {RawEvent(dataset, IsoTs(TimeUnit), "SCC1", "Active",
              [NoData EXCEPT !.sku = "B", !.customer_count = 4]) :
        dataset \in {"Weather_data", "pos_transactions", NoneStr}}

\* StreamingClient._process_event on such an event; parsed is what
\* parse_streaming_event makes of it
ProcessUnknown ==
    \E event \in UnknownEvents :
    \E sys \in {System} :
    \E out \in {dispatch(sys, products_data, tz_aware, event)} :
        /\ ingested < MaxPipeline
        /\ ingested' = ingested + 1
        /\ SetStore(out.store)
        /\ SetSink(out.sink)
        /\ last_global_detection' = out.last_global_detection
        /\ lastOp' = [op |-> "process_event", dataset |-> event.dataset,
                      parsed |-> parse_streaming_event(event),
                      runs |-> out.runs, global_runs |-> out.global_runs]
        /\ UNCHANGED <<rtVars, tz_aware, products_data, corr, recent, threadVars>>

NextQuery == QueryIngest \/ QueryRead \/ ProcessUnknown

SpecQuery == InitQuery /\ [][NextQuery]_vars

\* C15: no read path changes the state of the store or of the sink: a
\* per-station or global detector run, find_correlations, get_recent_data,
\* get_station_status, get_all_stations, get_latest_inventory and the
\* dashboard query, for a known or an unknown station, leave every bucket,
\* the set of known stations, the status and last-activity maps, the
\* inventory history and the event log unchanged.
C15_ReadPathsChangeNothing ==
    [][lastOp'.op = "query" =>
            /\ storeVars' = storeVars
            /\ get_all_stations(Store)' = get_all_stations(Store)
            /\ sinkVars' = sinkVars]_vars

\* the station detectors were run for a station no record names, on a store
\* that holds records and a log that holds events
C15_Witness ==
    /\ lastOp.op = "query"
    /\ lastOp.path = "run_all_detections"
    /\ lastOp.station = "SCC9"
    /\ get_all_stations(Store) # {}
    /\ inventory_snapshots # <<>>
    /\ events # <<>>

----------------------------------------------------------------------------
(* The event sink on its own, used from one thread *)

SinkPayloads == {[event_name |-> "Success Operation", station_id |-> s] : s \in Stations}

InitSink ==
    /\ InitCommon
    /\ last_global_detection = 0
    /\ tz_aware = TRUE
    /\ products_data = Catalog

SinkAdd ==
    \E d \in SinkPayloads :
        /\ Len(events) < MaxEvents
        /\ SetSink(add_event(Sink, d, 0))
        /\ lastOp' = [op |-> "add_event", station |-> d.station_id, ts |-> IsoTs(0)]
        /\ recent' = <<>>
        /\ UNCHANGED <<rtVars, storeVars, sysVars, ingested, corr, threadVars>>

SinkClear ==
    /\ events # <<>>
    /\ SetSink(clear_events(Sink))
    /\ lastOp' = [op |-> "clear_events", station |-> NoneStr, ts |-> IsoTs(0)]
    /\ recent' = <<>>
    /\ UNCHANGED <<rtVars, storeVars, sysVars, ingested, corr, threadVars>>

SinkRecent ==
    /\ lastOp.op # "get_events"
    /\ recent' = recent_events(Sink)
    /\ lastOp' = [op |-> "get_events", station |-> NoneStr, ts |-> IsoTs(0)]
    /\ UNCHANGED <<rtVars, storeVars, sinkVars, sysVars, ingested, corr, threadVars>>

NextSink == SinkAdd \/ SinkClear \/ SinkRecent

SpecSink == InitSink /\ [][NextSink]_vars

\* the number an event id denotes: the digits after "E" read in base 10
DigitValue(c) == CHOOSE d \in 0..9 : DigitChars[d + 1] = c
RECURSIVE DigitsValue(_)
DigitsValue(ds) ==
    IF ds = <<>> THEN 0
    ELSE 10 * DigitsValue(SubSeq(ds, 1, Len(ds) - 1)) + DigitValue(ds[Len(ds)])
IdNumber(id) == DigitsValue(Tail(id))

IsPrefix(a, b) == Len(a) <= Len(b) /\ SubSeq(b, 1, Len(a)) = a

\* the k-th event of the log (from 0) carries id number k, so ids are
\* sequential, strictly increasing and unique, and get_events()[-10:] is the
\* last (at most 10) events in append order
SequentialIds ==
    /\ \A k \in 1..Len(events) :
        /\ Head(events[k].event_id) = "E"
        /\ Len(events[k].event_id) >= 4
        /\ IdNumber(events[k].event_id) = k - 1
    /\ \A i, j \in 1..Len(events) : i # j => events[i].event_id # events[j].event_id
    /\ lastOp.op = "get_events" =>
        /\ Len(recent) = (IF Len(events) < 10 THEN Len(events) ELSE 10)
        /\ \A k \in 1..Len(recent) : recent[k] = events[Len(events) - Len(recent) + k]

\* C5: used from one thread, with no clear in between the log is
\* append-only (the log before a step is a prefix of the log after it), the
\* k-th event (from 0) carries id number k, so that ids are sequential,
\* strictly increasing and unique, and get_events()[-K:] is the last K
\* appended events in append order.
C5_SequentialAppendOnlyLog ==
    /\ []SequentialIds
    /\ [][lastOp'.op # "clear_events" => IsPrefix(events, events')]_vars

\* more than ten events were appended and the last ten were read
C5_Witness ==
    /\ lastOp.op = "get_events"
    /\ Len(events) > 10
    /\ Len(recent) = 10

----------------------------------------------------------------------------
(* The event sink used by the stream thread (per-station findings) and the *)
(* main thread (global findings) at once.  add_event takes no lock; its    *)
(* statements interleave: line 26 reads the counter, line 27 loads and     *)
(* stores it, line 36 appends.                                             *)

ThreadPayload(t) ==
    IF t = "stream" THEN [event_name |-> "Scanner Avoidance", station_id |-> "SCC1"]
    ELSE [event_name |-> "Staffing Needs", station_id |-> "Unknown"]

InitSinkConc ==
    /\ InitCommon
    /\ last_global_detection = 0
    /\ tz_aware = TRUE
    /\ products_data = Catalog

\* a thread enters add_event
AddEventCall ==
    \E t \in Threads :
        /\ pc[t] = "idle"
        /\ ingested < MaxConcEvents
        /\ ingested' = ingested + 1
        /\ pc' = [pc EXCEPT ![t] = "format"]
        /\ loc' = [loc EXCEPT ![t] = [NoLoc EXCEPT !.event_data = ThreadPayload(t)]]
        /\ UNCHANGED <<rtVars, storeVars, sinkVars, sysVars, lastOp, corr, recent, inflight, seen>>

\* line 26: event_id = f"E{self.event_counter:03d}"
AddEventFormat ==
    \E t \in Threads :
        /\ pc[t] = "format"
        /\ loc' = [loc EXCEPT ![t].event_id = format_event_id(event_counter)]
        /\ pc' = [pc EXCEPT ![t] = "load"]
        /\ UNCHANGED <<rtVars, storeVars, sinkVars, sysVars, lastOp, ingested, corr, recent, inflight, seen>>

\* line 27, self.event_counter += 1: the load
AddEventLoad ==
    \E t \in Threads :
        /\ pc[t] = "load"
        /\ loc' = [loc EXCEPT ![t].tmp = event_counter]
        /\ pc' = [pc EXCEPT ![t] = "store"]
        /\ UNCHANGED <<rtVars, storeVars, sinkVars, sysVars, lastOp, ingested, corr, recent, inflight, seen>>

\* line 27, self.event_counter += 1: the store
AddEventStore ==
    \E t \in Threads :
        /\ pc[t] = "store"
        /\ event_counter' = loc[t].tmp + 1
        /\ pc' = [pc EXCEPT ![t] = "append"]
        /\ UNCHANGED <<rtVars, storeVars, events, sysVars, lastOp, ingested, corr, recent, loc, inflight, seen>>

\* lines 30-36: self.events.append(event)
AddEventAppend ==
    \E t \in Threads :
        /\ pc[t] = "append"
        /\ events' = Append(events, [timestamp |-> isoformat(0),
                                     event_id |-> loc[t].event_id,
                                     event_data |-> loc[t].event_data])
        /\ pc' = [pc EXCEPT ![t] = "idle"]
        /\ lastOp' = [op |-> "add_event", station |-> t, ts |-> IsoTs(0)]
        /\ UNCHANGED <<rtVars, storeVars, event_counter, sysVars, ingested, corr, recent, loc, inflight, seen>>

NextSinkConc ==
    AddEventCall \/ AddEventFormat \/ AddEventLoad \/ AddEventStore \/ AddEventAppend

SpecSinkConc == InitSinkConc /\ [][NextSinkConc]_vars

\* C4: with the stream thread and the main thread both appending, every
\* event of the log has an id different from every other event's, and the
\* counter equals the number of events appended (once no append is under way).
C4_UniqueIdsAcrossThreads ==
    /\ \A i, j \in 1..Len(events) : i # j => events[i].event_id # events[j].event_id
    /\ (\A t \in Threads : pc[t] = "idle") => event_counter = Len(events)

----------------------------------------------------------------------------
(* The store written by the stream thread (add_data) while another thread  *)
(* reads it (global detection under the timer, the dashboard query).       *)
(* add_data takes no lock: a reader can run between its statements.        *)

ConcInputs ==
    {ParsedRecord("queue_monitoring", IsoTs(t), s, "Active") : t \in Instants, s \in Stations}
    \cup {ParsedRecord("queue_monitoring", [kind |-> "garbage", t |-> 0], "SCC1", "Active")}

InitStoreConc ==
    /\ InitCommon
    /\ last_global_detection = 0
    /\ tz_aware = TRUE
    /\ products_data = Catalog

InflightTs == fromisoformat(inflight.rec.timestamp).t

\* lines 33-46: the stream thread enters add_data; an invalid record returns at once
IngestBegin ==
    \E p \in ConcInputs :
        /\ pc["stream"] = "idle"
        /\ ingested < MaxConcIngest
        /\ ingested' = ingested + 1
        /\ inflight' = [rec |-> p, pre |-> Store]
        /\ pc' = [pc EXCEPT !["stream"] = IF accepts(p) THEN "dispatch" ELSE "idle"]
        /\ seen' = NoSeen
        /\ UNCHANGED <<rtVars, storeVars, sinkVars, sysVars, lastOp, corr, recent, loc>>

\* lines 48-58: the append
IngestAppend ==
    /\ pc["stream"] = "dispatch"
    /\ SetStore(add_dispatch(Store, inflight.rec, InflightTs))
    /\ pc' = [pc EXCEPT !["stream"] = "status"]
    /\ UNCHANGED <<rtVars, sinkVars, sysVars, lastOp, ingested, corr, recent, loc, inflight, seen>>

\* lines 60-64: status and last activity
IngestStatus ==
    /\ pc["stream"] = "status"
    /\ SetStore(update_status(Store, inflight.rec, InflightTs))
    /\ pc' = [pc EXCEPT !["stream"] = "pos_transactions"]
    /\ UNCHANGED <<rtVars, sinkVars, sysVars, lastOp, ingested, corr, recent, loc, inflight, seen>>

NextDict(b) ==
    CASE b = "pos_transactions" -> "rfid_readings"
      [] b = "rfid_readings" -> "queue_data"
      [] b = "queue_data" -> "product_recognition"
      [] b = "product_recognition" -> "idle"

\* line 67: _cleanup_old_data, one dict after the other
IngestCleanup ==
    /\ pc["stream"] \in BucketNames
    /\ SetStore(cleanup_dict(Store, pc["stream"], InflightTs))
    /\ pc' = [pc EXCEPT !["stream"] = NextDict(@)]
    /\ lastOp' = IF NextDict(pc["stream"]) = "idle"
                 THEN [op |-> "add_data", station |-> inflight.rec.station_id,
                       ts |-> inflight.rec.timestamp]
                 ELSE lastOp
    /\ UNCHANGED <<rtVars, sinkVars, sysVars, ingested, corr, recent, loc, inflight, seen>>

\* another thread reads the store: get_all_stations / get_recent_data /
\* get_station_status in _run_global_detections or get_dashboard_data
ConcurrentRead ==
    /\ ~seen.read
    /\ seen' = [read |-> TRUE,
                store |-> Store,
                pre |-> IF pc["stream"] = "idle" THEN Store ELSE inflight.pre,
                rec |-> IF pc["stream"] = "idle" THEN NoInflight.rec ELSE inflight.rec]
    /\ UNCHANGED <<rtVars, storeVars, sinkVars, sysVars, lastOp, ingested, corr, recent, pc, loc, inflight>>

NextStoreConc ==
    IngestBegin \/ IngestAppend \/ IngestStatus \/ IngestCleanup \/ ConcurrentRead

SpecStoreConc == InitStoreConc /\ [][NextStoreConc]_vars

\* the statements of add_data, run to the end, make up add_data
StepsMakeAddData ==
    (pc["stream"] = "idle" /\ lastOp.op = "add_data") =>
        Store = add_data(inflight.pre, inflight.rec)

\* C3: with ingestion on the stream thread and reads on another thread,
\* every read observes the store either as it was before the ingest under
\* way or as it is after the complete ingest (append, status update,
\* eviction), never a state in between.
C3_ReadsSeeWholeIngests ==
    seen.read => \/ seen.store = seen.pre
                 \/ seen.store = add_data(seen.pre, seen.rec)

----------------------------------------------------------------------------
(* Real-time mode: start_real_time_processing on the main thread and       *)
(* StreamingClient._stream_loop on the stream thread.  A handler call and  *)
(* a loop iteration are one step each here; the interleavings inside       *)
(* add_data and add_event are those of SpecStoreConc and SpecSinkConc.     *)

MaxClock == 70
MaxChunks == 2

\* time.sleep(1) and the iteration's work: the clock moves on by one or three units
TickSteps == {TimeUnit, 3 * TimeUnit}
RunDurations == {None, 2 * TimeUnit}
\* start_time = time.time() on entry of the loop; the clock starts at 0
start_time == 0

StreamInstants == {0, global_detection_interval}
StreamEvents ==
    {RawEvent("Current_inventory_data", IsoTs(t), NoneStr, NoneStr,
              [NoData EXCEPT !.items = <<[sku |-> "A", quantity |-> 94]>>]) :
        t \in StreamInstants}
    \cup {RawEvent("Queue_monitor", IsoTs(0), "SCC1", "Active",
                   [NoData EXCEPT !.customer_count = 4, !.average_dwell_time = 30])}
\* what one recv returns: one or two complete lines
InventoryLines == {e \in StreamEvents : e.dataset = "Current_inventory_data"}
Chunks ==
    {<<e>> : e \in InventoryLines}
    \cup {<<e, f>> : e \in StreamEvents \ InventoryLines, f \in InventoryLines}

InitRT ==
    /\ InitCommon
    /\ last_global_detection = now
    /\ tz_aware \in BOOLEAN
    /\ products_data = Catalog

Goto(thread, position) == pc' = [pc EXCEPT ![thread] = position]

RTIdle == <<storeVars, sinkVars, sysVars, ingested, corr, recent, loc, inflight, seen>>

\* start_streaming: connect succeeds, the stream thread starts
StartStreaming ==
    /\ pc["main"] = "idle" /\ pc["stream"] = "idle"
    /\ run_duration' \in RunDurations
    /\ running' = TRUE
    /\ pc' = [pc EXCEPT !["main"] = "loop", !["stream"] = "while"]
    /\ lastOp' = [op |-> "start_streaming"]
    /\ UNCHANGED <<RTIdle, now, socket_closed, lines, delivered>>

\* start_streaming returns False when connect fails; the method returns False
ConnectFails ==
    /\ pc["main"] = "idle" /\ pc["stream"] = "idle"
    /\ Goto("main", "failed")
    /\ lastOp' = [op |-> "connect_failed"]
    /\ UNCHANGED <<RTIdle, rtVars>>

\* a loop that never looks at the duration
duration_ignored == FALSE

\* "if duration_seconds and (time.time() - start_time) > duration_seconds"
duration_over == run_duration # None /\ run_duration # 0 /\ now - start_time > run_duration

\* one iteration of the loop: sleep, current_time = datetime.now(),
\* _run_global_detections(current_time)
Tick(dt) ==
    /\ pc["main"] = "loop"
    /\ ~duration_over
    /\ now + dt <= MaxClock
    /\ \E sys \in {System} :
       \E out \in {run_global_detections_due(sys, products_data, now + dt, TRUE)} :
       /\ now' = now + dt
       /\ SetSink(out.sink)
       /\ last_global_detection' = out.last_global_detection
       /\ lastOp' = [op |-> "tick", now |-> now + dt, last |-> last_global_detection,
                     global_runs |-> out.global_runs]
       /\ UNCHANGED <<storeVars, tz_aware, products_data, ingested, corr, recent,
                      threadVars, running, socket_closed, lines, delivered, run_duration>>

\* the duration has elapsed: break
DurationBreak ==
    /\ pc["main"] = "loop"
    /\ duration_over
    /\ Goto("main", "finally")
    /\ lastOp' = [op |-> "break"]
    /\ UNCHANGED <<RTIdle, rtVars>>

\* KeyboardInterrupt during the loop
Interrupt ==
    /\ pc["main"] = "loop"
    /\ Goto("main", "finally")
    /\ lastOp' = [op |-> "interrupt"]
    /\ UNCHANGED <<RTIdle, rtVars>>

\* finally: stop_streaming, then return True
StopStreaming ==
    /\ pc["main"] = "finally"
    /\ running' = FALSE
    /\ socket_closed' = TRUE
    /\ Goto("main", "returned")
    /\ lastOp' = [op |-> "stop_streaming"]
    /\ UNCHANGED <<RTIdle, now, lines, delivered, run_duration>>

\* "while self.running"
StreamWhile ==
    /\ pc["stream"] = "while"
    /\ Goto("stream", IF running THEN "recv" ELSE "closing")
    /\ UNCHANGED <<RTIdle, rtVars, lastOp>>

\* self.socket.recv(4096) is called: on a socket closed locally it raises
\* OSError, caught by "except Exception"; otherwise the call blocks
RecvEnter ==
    /\ pc["stream"] = "recv"
    /\ Goto("stream", IF socket_closed THEN "closing" ELSE "blocked")
    /\ UNCHANGED <<RTIdle, rtVars, lastOp>>

\* the server sends data: the blocked recv returns it, also when the socket
\* object was closed meanwhile (the call in progress keeps the connection)
RecvData(chunk) ==
    /\ pc["stream"] = "blocked"
    /\ delivered < MaxChunks
    /\ delivered' = delivered + 1
    /\ lines' = chunk
    /\ Goto("stream", "for")
    /\ UNCHANGED <<RTIdle, now, running, socket_closed, run_duration, lastOp>>

\* the server sends blank lines only: "if line.strip()" dispatches nothing
RecvBlank ==
    /\ pc["stream"] = "blocked"
    /\ lines' = <<>>
    /\ Goto("stream", "while")
    /\ UNCHANGED <<RTIdle, now, running, socket_closed, delivered, run_duration, lastOp>>

\* the server closes the connection: recv returns b"", "if not data: break"
RecvEof ==
    /\ pc["stream"] = "blocked"
    /\ Goto("stream", "closing")
    /\ UNCHANGED <<RTIdle, rtVars, lastOp>>

\* close() from the main thread while recv blocks: whether the blocked call
\* is woken (with an error) depends on the platform; it may stay blocked
RecvWake ==
    /\ pc["stream"] = "blocked"
    /\ socket_closed
    /\ Goto("stream", "closing")
    /\ UNCHANGED <<RTIdle, rtVars, lastOp>>

\* "for line in lines[:-1]": json.loads and _process_event, whatever
\* self.running is by now
DispatchLine ==
    /\ pc["stream"] = "for"
    /\ lines # <<>>
    /\ \E sys \in {System} :
       \E event \in {Head(lines)} :
       \E out \in {dispatch(sys, products_data, tz_aware, event)} :
       /\ lines' = Tail(lines)
       /\ Goto("stream", IF Tail(lines) = <<>> THEN "while" ELSE "for")
       /\ SetStore(out.store)
       /\ SetSink(out.sink)
       /\ last_global_detection' = out.last_global_detection
       /\ lastOp' = [op |-> "dispatch", dataset |-> event.dataset,
                     last |-> last_global_detection, runs |-> out.runs,
                     global_runs |-> out.global_runs, running |-> running]
       /\ UNCHANGED <<tz_aware, products_data, ingested, corr, recent, loc, inflight, seen,
                      now, running, socket_closed, delivered, run_duration>>

\* finally: self.socket.close()
StreamClose ==
    /\ pc["stream"] = "closing"
    /\ socket_closed' = TRUE
    /\ Goto("stream", "done")
    /\ UNCHANGED <<RTIdle, now, running, lines, delivered, run_duration, lastOp>>

Ticks == \E dt \in TickSteps : Tick(dt)
RecvChunk == \E chunk \in Chunks : RecvData(chunk)

NextRT ==
    \/ StartStreaming
    \/ ConnectFails
    \/ Ticks
    \/ DurationBreak
    \/ Interrupt
    \/ StopStreaming
    \/ StreamWhile
    \/ RecvEnter
    \/ RecvChunk
    \/ RecvBlank
    \/ RecvEof
    \/ RecvWake
    \/ DispatchLine
    \/ StreamClose

SpecRT == InitRT /\ [][NextRT]_vars

\* what each thread does by itself once it is able to; data arriving (a
\* server that stays silent is always possible), the server closing, an
\* interrupt and a wake-up of a blocked recv are not
\* a Ticks step and a DispatchLine step, told by the clock and by the lines left
TickStep ==
    /\ pc["main"] = "loop" /\ ~duration_over
    /\ \E dt \in TickSteps : now + dt <= MaxClock /\ now' = now + dt
DispatchStep == pc["stream"] = "for" /\ lines # <<>> /\ lines' = Tail(lines)
MainStep == DurationBreak \/ StopStreaming
StreamStep == StreamWhile \/ RecvEnter \/ StreamClose

SpecRTFair ==
    /\ SpecRT
    /\ WF_vars(MainStep) /\ WF_now(TickStep)
    /\ WF_vars(StreamStep) /\ WF_lines(DispatchStep)

\* C9: in real-time mode the global detectors are driven by the tick alone:
\* a tick at least 60 s after the instant of the previous global run runs
\* them once with the tick's instant, which becomes the last-run instant; a
\* tick less than 60 s after it runs nothing; and no global run comes from
\* anything but a tick, so two successive global runs are 60 s apart.
C9_GlobalRunsByTickAlone ==
    /\ lastOp.op = "tick" =>
         IF lastOp.now - lastOp.last >= 60
         THEN lastOp.global_runs = <<lastOp.now>> /\ last_global_detection = lastOp.now
         ELSE lastOp.global_runs = <<>> /\ last_global_detection = lastOp.last
    /\ lastOp.op = "dispatch" =>
         lastOp.global_runs = <<>> /\ last_global_detection = lastOp.last

\* C10: once stop_streaming has been called the stream loop terminates,
\* also when it is blocked in recv at that moment, and from the moment the
\* real-time loop is left no tick runs the global detectors any more.
C10_StopEndsBothLoops ==
    /\ (pc["main"] = "returned") ~> (pc["stream"] = "done")
    /\ [][pc["main"] \in {"finally", "returned"} => lastOp'.op # "tick"]_vars

\* C11: after stop_streaming has returned no further record is dispatched to
\* a callback or ingested into the store: the lines of the current chunk
\* not yet dispatched are discarded.
C11_NothingDispatchedAfterStop ==
    /\ lastOp.op = "dispatch" => lastOp.running
    /\ [][pc["main"] = "returned" => storeVars' = storeVars /\ sinkVars' = sinkVars]_vars

----------------------------------------------------------------------------
(* The per-station detectors called on their own: records are ingested     *)
(* into the store, then the detectors are called for a station and an     *)
(* instant, and called again with the same arguments.                      *)

MaxDetectIngest == 2

\* the catalog with a product whose weight and price are recorded as 0
DetectCatalog ==
    [sku \in {"A", "B", "Z"} |->
        IF sku = "Z" THEN [quantity |-> 0, weight |-> 0, price |-> 0] ELSE Catalog[sku]]

Rfid(ts, station, sku, location) ==
    [ParsedRecord("rfid_reading", IsoTs(ts), station, "Active")
        EXCEPT !.sku = sku, !.location = location]

Pos(ts, sku, price, weight) ==
    [ParsedRecord("pos_transaction", IsoTs(ts), "SCC1", "Active")
        EXCEPT !.customer_id = "C001", !.sku = sku, !.price = price, !.weight_g = weight]

\* readings in and out of the scan area, of catalogued, uncatalogued ("X"),
\* zero-priced and missing SKUs; transactions at, below and above the price
\* and weight thresholds; records of every crash status and of another one;
\* a long and slow queue; a snapshot counting 94 of the 100 of the catalog
DetectInputs ==
    {Rfid(0, "SCC1", "B", "IN_SCAN_AREA"),
     Rfid(TimeUnit, "SCC1", "B", "IN_SCAN_AREA"),
     Rfid(0, "SCC1", "A", "IN_SCAN_AREA"),
     Rfid(0, "SCC1", "B", "EXIT_GATE"),
     Rfid(0, "SCC1", NoneStr, "IN_SCAN_AREA"),
     Rfid(0, "SCC1", "X", "IN_SCAN_AREA"),
     Rfid(0, "SCC1", "Z", "IN_SCAN_AREA"),
     Rfid(0, "SCC2", "B", "IN_SCAN_AREA"),
     Pos(0, "A", 5, None),
     Pos(0, "A", 10, 150),
     Pos(0, "B", 20, 360),
     Pos(TimeUnit, "B", None, 239),
     Pos(0, "X", 1, 999),
     Pos(0, "Z", 1, 100)}
    \cup {ParsedRecord("product_recognition", IsoTs(0), "SCC1", status) :
            status \in {"System Crash", "Read Error", "Error", "Failed", "Idle"}}
    \cup {[ParsedRecord("queue_monitoring", IsoTs(0), "SCC1", "Active")
                EXCEPT !.customer_count = 4, !.average_dwell_time = 130],
          [ParsedRecord("inventory_snapshot", IsoTs(0), NoneStr, NoneStr)
                EXCEPT !.inventory_data = <<[sku |-> "A", quantity |-> 94]>>]}

\* the instants the detectors are called with: at the records, at the edge
\* of the correlation window and past it, at the edge of the inactivity
\* period and past it
DetectInstants ==
    {0, time_range, time_range + 1, UNRESPONSIVE_AFTER, UNRESPONSIVE_AFTER + 1}

\* the catalog was loaded, or load_reference_data failed and left it empty
InitDetect ==
    /\ InitCommon
    /\ last_global_detection = 0
    /\ tz_aware = FALSE
    /\ products_data \in {DetectCatalog, EmptyDict}

DetectIngest ==
    \E p \in DetectInputs :
        /\ ingested < MaxDetectIngest
        /\ ingested' = ingested + 1
        /\ SetStore(add_data(Store, p))
        /\ lastOp' = [op |-> "add_data", station |-> p.station_id, ts |-> p.timestamp,
                      type |-> p.type, status |-> p.status]
        /\ UNCHANGED <<rtVars, sinkVars, sysVars, corr, recent, threadVars>>

\* the six detectors are called for the station and the instant, and the
\* inventory detector for the instant
Detect ==
    \E station_id \in Stations, timestamp \in DetectInstants :
    \E st \in {Store} :
    \E found \in {station_detections(st, products_data, station_id, timestamp)} :
        /\ lastOp.op # "detect"
        /\ SetStore(after_run_all_detections(st, station_id))
        /\ lastOp' = [op |-> "detect", station |-> station_id, t |-> timestamp,
                      found |-> found, again |-> FALSE, before |-> found,
                      inventory |-> detect_inventory_discrepancies(
                                        st, products_data, timestamp).events]
        /\ UNCHANGED <<rtVars, sinkVars, sysVars, ingested, corr, recent, threadVars>>

\* the same call once more; before is what the call before it returned
DetectAgain ==
    \E st \in {Store} :
    \E found \in {IF lastOp.op = "detect"
                  THEN station_detections(st, products_data, lastOp.station, lastOp.t)
                  ELSE <<>>} :
        /\ lastOp.op = "detect"
        /\ SetStore(after_run_all_detections(st, lastOp.station))
        /\ lastOp' = [lastOp EXCEPT !.found = found, !.again = TRUE, !.before = lastOp.found]
        /\ UNCHANGED <<rtVars, sinkVars, sysVars, ingested, corr, recent, threadVars>>

NextDetect == DetectIngest \/ Detect \/ DetectAgain

SpecDetect == InitDetect /\ [][NextDetect]_vars

InWindow(b, station_id, timestamp) ==
    {i \in 1..Len(Bucket(b, station_id)) :
        /\ Bucket(b, station_id)[i].parsed_timestamp >= timestamp - 10
        /\ Bucket(b, station_id)[i].parsed_timestamp <= timestamp + 10}

NonNullSku(sku) == sku \notin {NoneStr, "", "null"}

\* the readings in the window, in the scan area, with a SKU that no
\* transaction in the window carries
UnmatchedReadings(station_id, timestamp) ==
    {i \in InWindow("rfid_readings", station_id, timestamp) :
        /\ Bucket("rfid_readings", station_id)[i].location = "IN_SCAN_AREA"
        /\ NonNullSku(Bucket("rfid_readings", station_id)[i].sku)
        /\ \A j \in InWindow("pos_transactions", station_id, timestamp) :
              Bucket("pos_transactions", station_id)[j].sku #
                  Bucket("rfid_readings", station_id)[i].sku}

\* C17: detect_scanner_avoidance(S, T) returns a HIGH finding if and only if
\* the +-10 s window of S around T holds an RFID reading in the scan area
\* with a non-null SKU that no POS transaction of the window carries; it
\* returns one finding at most, for the first such reading in store order.
C17_ScannerAvoidanceExact ==
    lastOp.op = "detect" =>
        LET unmatched == UnmatchedReadings(lastOp.station, lastOp.t)
            finding == lastOp.found[1]
        IN IF unmatched = {}
           THEN finding = NoFinding
           ELSE /\ finding.event_name = "Scanner Avoidance"
                /\ finding.severity = "HIGH"
                /\ finding.station_id = lastOp.station
                /\ \E i \in unmatched :
                      /\ \A j \in unmatched : i <= j
                      /\ finding.product_sku =
                            Bucket("rfid_readings", lastOp.station)[i].sku

\* two unmatched readings of different SKUs are in the window, the finding
\* names the first; a transaction is in the store too
C17_Witness ==
    /\ lastOp.op = "detect"
    /\ lastOp.found[1].event_name = "Scanner Avoidance"
    /\ Cardinality(UnmatchedReadings(lastOp.station, lastOp.t)) = 2
    /\ \E i \in UnmatchedReadings(lastOp.station, lastOp.t) :
          Bucket("rfid_readings", lastOp.station)[i].sku # lastOp.found[1].product_sku

\* the pairs (transaction, reading) of the window that show a switch: the
\* transaction has a SKU and a price, the reading is in the scan area with
\* another, non-null SKU whose catalog price exists, is positive and is more
\* than twice the transaction's price
SwitchPairs(station_id, timestamp) ==
    {h \in InWindow("pos_transactions", station_id, timestamp)
            \X InWindow("rfid_readings", station_id, timestamp) :
        LET pos == Bucket("pos_transactions", station_id)[h[1]]
            rfid == Bucket("rfid_readings", station_id)[h[2]]
        IN /\ NonNullSku(pos.sku)
           /\ pos.price # None
           /\ rfid.location = "IN_SCAN_AREA"
           /\ NonNullSku(rfid.sku)
           /\ rfid.sku # pos.sku
           /\ rfid.sku \in DOMAIN products_data
           /\ products_data[rfid.sku].price > 0
           /\ products_data[rfid.sku].price > 2 * pos.price}

\* C18: detect_barcode_switching(S, T) returns a CRITICAL finding if and
\* only if the window holds a POS transaction (with SKU and price) and a
\* reading in the scan area with a different non-null SKU whose catalog
\* price exists, is positive and is more than twice the transaction's
\* price; price_difference is the expected price minus the transaction's
\* price; a price of exactly half the expected price does not fire.
C18_BarcodeSwitchingExact ==
    lastOp.op = "detect" =>
        LET pairs == SwitchPairs(lastOp.station, lastOp.t)
            finding == lastOp.found[2]
        IN IF pairs = {}
           THEN finding = NoFinding
           ELSE /\ finding.event_name = "Barcode Switching"
                /\ finding.severity = "CRITICAL"
                /\ finding.station_id = lastOp.station
                /\ \E h \in pairs :
                     LET pos == Bucket("pos_transactions", lastOp.station)[h[1]]
                         rfid == Bucket("rfid_readings", lastOp.station)[h[2]]
                     IN /\ finding.scanned_sku = pos.sku
                        /\ finding.actual_sku = rfid.sku
                        /\ finding.price_difference =
                              products_data[rfid.sku].price - pos.price

\* POS A at 5 with a reading of B, priced 20: a finding with difference 15
C18_Witness ==
    /\ lastOp.op = "detect"
    /\ lastOp.found[2].event_name = "Barcode Switching"
    /\ lastOp.found[2].scanned_sku = "A"
    /\ lastOp.found[2].actual_sku = "B"
    /\ lastOp.found[2].price_difference = 15

\* the transactions of the window with a recorded weight, a SKU of positive
\* catalog weight and a weight more than 50 g away from it
WeightHits(station_id, timestamp) ==
    {i \in InWindow("pos_transactions", station_id, timestamp) :
        LET pos == Bucket("pos_transactions", station_id)[i]
        IN /\ pos.weight_g # None
           /\ pos.sku \in DOMAIN products_data
           /\ products_data[pos.sku].weight > 0
           /\ \/ pos.weight_g - products_data[pos.sku].weight > 50
              \/ products_data[pos.sku].weight - pos.weight_g > 50}

\* C19: detect_weight_discrepancies fires for a POS transaction of the
\* window if and only if it has a recorded weight, its SKU has a positive
\* catalog weight and |actual - expected| is strictly greater than 50 g;
\* the severity is HIGH when the deviation is strictly above 20% of the
\* expected weight and MEDIUM otherwise.
C19_WeightDiscrepancyExact ==
    lastOp.op = "detect" =>
        LET hits == WeightHits(lastOp.station, lastOp.t)
            finding == lastOp.found[3]
        IN IF hits = {}
           THEN finding = NoFinding
           ELSE /\ finding.event_name = "Weight Discrepancies"
                /\ finding.station_id = lastOp.station
                /\ \E i \in hits :
                     LET pos == Bucket("pos_transactions", lastOp.station)[i]
                         expected == products_data[pos.sku].weight
                     IN /\ finding.product_sku = pos.sku
                        /\ finding.actual_weight = pos.weight_g
                        /\ finding.expected_weight = expected
                        /\ finding.severity =
                              IF \/ 5 * (pos.weight_g - expected) > expected
                                 \/ 5 * (expected - pos.weight_g) > expected
                              THEN "HIGH" ELSE "MEDIUM"

\* a transaction 60 g above an expected weight of 300 g, exactly 20%: MEDIUM
C19_Witness ==
    /\ lastOp.op = "detect"
    /\ lastOp.found[3].event_name = "Weight Discrepancies"
    /\ lastOp.found[3].actual_weight - lastOp.found[3].expected_weight = 60
    /\ lastOp.found[3].expected_weight = 300
    /\ lastOp.found[3].severity = "MEDIUM"

\* C20: detect_system_crashes(S, T) returns a CRITICAL crash finding exactly
\* when the last status of S is System Crash, Read Error, Error or Failed;
\* otherwise a HIGH Station Unresponsive finding exactly when the status is
\* Active and T is more than 600 s after the last activity of S; in every
\* other case nothing.
C20_CrashOrUnresponsiveExact ==
    lastOp.op = "detect" =>
        LET S == lastOp.station
            finding == lastOp.found[4]
        IN IF S \in DOMAIN station_status
              /\ station_status[S] \in {"System Crash", "Read Error", "Error", "Failed"}
           THEN /\ finding.event_name = "Unexpected Systems Crash"
                /\ finding.severity = "CRITICAL"
                /\ finding.station_id = S
           ELSE IF /\ S \in DOMAIN station_status
                   /\ station_status[S] = "Active"
                   /\ lastOp.t - last_activity[S] > 600
           THEN /\ finding.event_name = "Station Unresponsive"
                /\ finding.severity = "HIGH"
                /\ finding.station_id = S
           ELSE finding = NoFinding

\* an active station, last heard of at 0, is found unresponsive at 601
C20_Witness ==
    /\ lastOp.op = "detect"
    /\ lastOp.t = UNRESPONSIVE_AFTER + 1
    /\ lastOp.found[4].event_name = "Station Unresponsive"
    /\ lastOp.found[4].inactive_duration = UNRESPONSIVE_AFTER + 1


----------------------------------------------------------------------------
(* The queue monitor of one station: a sample every 5 seconds; each is    *)
(* parsed and added to the store, and the station's detectors are called   *)
(* at the sample's instant.                                                 *)

MaxQueueSamples == 7

\* "Assuming 5-second intervals"
SAMPLE_INTERVAL == 5

\* <<customer_count, average_dwell_time>>: a short queue, one at the queue
\* and wait thresholds, two longer and slower ones, and a sample that carries
\* neither value
QueueSamples == {<<2, 0>>, <<3, 120>>, <<5, 300>>, <<7, 240>>, <<None, None>>}

\* the customer counts of the six samples of Scenario C
ScenarioC == <<2, 3, 4, 5, 6, 7>>

QueueEvent(t, sample) ==
    RawEvent("Queue_monitor", IsoTs(t), "SCC1", "Active",
             [NoData EXCEPT !.customer_count = sample[1],
                            !.average_dwell_time = sample[2]])

InitQueue ==
    /\ InitCommon
    /\ last_global_detection = 0
    /\ tz_aware = FALSE
    /\ products_data = Catalog

\* the station's retained samples as <<customer_count, average_dwell_time>>
RetainedSamples(station_id) ==
    [i \in 1..Len(DictGet(queue_data, station_id, <<>>)) |->
        <<queue_data[station_id][i].customer_count,
          queue_data[station_id][i].average_dwell_time>>]

\* parse_streaming_event and add_data on the next sample, then
\* run_all_detections for its station and instant; found is what the six
\* detectors returned
QueueSample(sample) ==
    \E timestamp \in {ingested * SAMPLE_INTERVAL} :
    \E st \in {add_data(Store, parse_streaming_event(QueueEvent(timestamp, sample)))} :
        /\ ingested < MaxQueueSamples
        /\ ingested' = ingested + 1
        /\ SetStore(after_run_all_detections(st, "SCC1"))
        /\ lastOp' = [op |-> "queue_sample", station |-> "SCC1", t |-> timestamp,
                      found |-> station_detections(st, products_data, "SCC1", timestamp)]
        /\ UNCHANGED <<rtVars, sinkVars, sysVars, corr, recent, threadVars>>

QueueMonitor == \E sample \in QueueSamples : QueueSample(sample)

\* the next sample of Scenario C, while the scenario is what was sent so far
QueueScenario ==
    /\ ingested < Len(ScenarioC)
    /\ RetainedSamples("SCC1") = [i \in 1..ingested |-> <<ScenarioC[i], 0>>]
    /\ QueueSample(<<ScenarioC[ingested + 1], 0>>)

NextQueue == QueueMonitor \/ QueueScenario

SpecQueue == InitQueue /\ [][NextQueue]_vars


\* the last six of the station's retained samples
SampleWindow(station_id) ==
    LET retained == RetainedSamples(station_id)
        skipped == IF Len(retained) > 6 THEN Len(retained) - 6 ELSE 0
    IN [i \in 1..(Len(retained) - skipped) |-> retained[skipped + i]]

\* a sample without the value (field 1 the count, 2 the dwell time) makes
\* the detector fail: any sample of a window of three or more, which is
\* compared and counted whole, else the latest sample
WindowFails(w, field) ==
    IF Len(w) >= 3 THEN \E i \in 1..Len(w) : w[i][field] = None
    ELSE w[Len(w)][field] = None

\* 5 s for every sample of the window at or above the threshold, 0 for a
\* window of fewer than three samples
SustainedSeconds(w, field, threshold) ==
    IF Len(w) >= 3
    THEN 5 * Cardinality({i \in 1..Len(w) : w[i][field] >= threshold})
    ELSE 0

WindowTrend(w, field, up, down) ==
    LET last == w[Len(w)][field]
        first == w[1][field]
        prev == w[IF Len(w) > 1 THEN Len(w) - 1 ELSE 1][field]
    IN IF last > first /\ last > prev THEN up
       ELSE IF last < first /\ last < prev THEN down
       ELSE "stable"

QueueSeverity(count, trend, duration) ==
    IF count >= 7 \/ (count >= 5 /\ trend = "growing") THEN "CRITICAL"
    ELSE IF count >= 5 \/ duration >= 25 THEN "HIGH"
    ELSE "MEDIUM"

\* the six samples of Scenario C are the store's samples of the station
ScenarioCIngested ==
    /\ lastOp.op = "queue_sample"
    /\ RetainedSamples("SCC1") = [i \in 1..Len(ScenarioC) |-> <<ScenarioC[i], 0>>]

\* C22 as stated: a Long Queue Length finding has trend growing iff the last
\* count exceeds the first and the second-to-last of the last six samples,
\* shrinking iff it is below both, else stable, whatever the number of
\* samples; severity CRITICAL iff count >= 7 or (count >= 5 and growing),
\* else HIGH iff count >= 5 or duration >= 25, else MEDIUM; Scenario C ends
\* in a finding with trend growing and severity CRITICAL.
C22_TrendAndSeverity ==
    /\ (lastOp.op = "queue_sample" /\ lastOp.found[5] # NoFinding) =>
        LET w == SampleWindow(lastOp.station)
            trend == WindowTrend(w, 1, "growing", "shrinking")
        IN /\ lastOp.found[5].queue_trend = trend
           /\ lastOp.found[5].severity =
                QueueSeverity(w[Len(w)][1], trend, SustainedSeconds(w, 1, 3))
    /\ ScenarioCIngested =>
        /\ lastOp.found[5] # NoFinding
        /\ lastOp.found[5].queue_trend = "growing"
        /\ lastOp.found[5].severity = "CRITICAL"

\* C22 amended: the trend is computed from a window of at least three
\* samples and is stable for a window of one or two; the rest as stated.
C22_TrendOverThreeSamples ==
    /\ (lastOp.op = "queue_sample" /\ lastOp.found[5] # NoFinding) =>
        LET w == SampleWindow(lastOp.station)
            trend == IF Len(w) >= 3 THEN WindowTrend(w, 1, "growing", "shrinking")
                     ELSE "stable"
        IN /\ lastOp.found[5].queue_trend = trend
           /\ lastOp.found[5].severity =
                QueueSeverity(w[Len(w)][1], trend, SustainedSeconds(w, 1, 3))
    /\ ScenarioCIngested =>
        /\ lastOp.found[5] # NoFinding
        /\ lastOp.found[5].queue_trend = "growing"
        /\ lastOp.found[5].severity = "CRITICAL"

\* Scenario C was ingested to its sixth sample and the finding was made
C22_Witness ==
    /\ ScenarioCIngested
    /\ lastOp.found[5].event_name = "Long Queue Length"
    /\ lastOp.found[5].num_of_customers = 7


WaitSeverity(dwell, trend, average_at_least_200, duration) ==
    IF dwell >= 300 \/ (dwell >= 240 /\ trend = "increasing") THEN "CRITICAL"
    ELSE IF dwell >= 180 \/ average_at_least_200 \/ duration >= 20 THEN "HIGH"
    ELSE "MEDIUM"

\* the trend of a window of at least three samples, stable for a shorter one
WaitTrend(w) ==
    IF Len(w) >= 3 THEN WindowTrend(w, 2, "increasing", "decreasing") ELSE "stable"

\* the average dwell time of a window of at least three samples is at least
\* the limit; of a shorter window the latest dwell time is taken
AverageAtLeast(w, limit) ==
    IF Len(w) >= 3
    THEN LET total[i \in 0..Len(w)] == IF i = 0 THEN 0 ELSE total[i - 1] + w[i][2]
         IN total[Len(w)] >= limit * Len(w)
    ELSE w[Len(w)][2] >= limit

\* C23 as stated: after a queue sample is ingested, Long Wait Time is found
\* if and only if the latest dwell time is >= 120 s or the sustained duration
\* (5 s times the number of the last six samples with dwell >= 120 s) is
\* >= 15 s; its severity is CRITICAL iff dwell >= 300 or (dwell >= 240 and
\* trend increasing), else HIGH iff dwell >= 180 or window average >= 200 or
\* duration >= 20, else MEDIUM.
C23_LongWaitSymmetric ==
    lastOp.op = "queue_sample" =>
        LET w == SampleWindow(lastOp.station)
            dwell == w[Len(w)][2]
            duration == SustainedSeconds(w, 2, 120)
            finding == lastOp.found[6]
        IN /\ finding # NoFinding <=>
                /\ ~WindowFails(w, 2)
                /\ dwell >= 120 \/ duration >= 15
           /\ finding # NoFinding =>
                finding.severity =
                    WaitSeverity(dwell, WaitTrend(w), AverageAtLeast(w, 200), duration)

\* what detect_long_wait_times does instead: Long Wait Time is found if and
\* only if the latest dwell time is >= 120 s or the average dwell time of the
\* last six samples is >= 120 s (the average is taken when the window holds
\* at least three samples); the sustained duration plays no part in whether
\* it is found.  The severity is as stated.
LongWaitByAverage ==
    lastOp.op = "queue_sample" =>
        LET w == SampleWindow(lastOp.station)
            dwell == w[Len(w)][2]
            duration == SustainedSeconds(w, 2, 120)
            finding == lastOp.found[6]
        IN /\ finding # NoFinding <=>
                /\ ~WindowFails(w, 2)
                /\ dwell >= 120 \/ AverageAtLeast(w, 120)
           /\ finding # NoFinding =>
                /\ finding.event_name = "Long Wait Time"
                /\ finding.wait_time_seconds = dwell
                /\ finding.sustained_duration_seconds = duration
                /\ finding.severity =
                    WaitSeverity(dwell, WaitTrend(w), AverageAtLeast(w, 200), duration)


----------------------------------------------------------------------------
(* Inventory snapshots sent through _process_inventory_snapshot, one every *)
(* global detection interval, against a catalog with a well-stocked        *)
(* product (A, 100), a low-stock one (B, 8) and one recorded with none (Z). *)

MaxSnapshots == 2

Item(sku, quantity) == [sku |-> sku, quantity |-> quantity]

\* the 'data' object of a snapshot: sku -> counted quantity
SnapshotData ==
    {<<Item("A", q)>> : q \in {79, 80, 89, 90, 94, 95, 96, 100, 106, None}}
    \cup {<<Item("B", q)>> : q \in {5, 6, 7, 8, 9}}
    \cup {<<Item("Z", 3)>>, <<Item("X", 3)>>, <<>>,
          <<Item("A", 94), Item("B", 7)>>, <<Item("A", 96), Item("B", 8)>>}

InitInventory ==
    /\ InitCommon
    /\ last_global_detection \in {0 - global_detection_interval, 0}
    /\ tz_aware = FALSE
    /\ products_data = DetectCatalog

\* _process_inventory_snapshot; found is what detect_inventory_discrepancies
\* returned when the global detectors were run, log_before the length of the
\* event log when the handler was entered
InventorySnapshot ==
    \E data \in SnapshotData :
    \E timestamp \in {ingested * global_detection_interval} :
    \E sys \in {System} :
    \E out \in {process_inventory_snapshot(sys, products_data, tz_aware,
                    RawEvent("Current_inventory_data", IsoTs(timestamp), NoneStr, NoneStr,
                             [NoData EXCEPT !.items = data]))} :
        /\ ingested < MaxSnapshots
        /\ ingested' = ingested + 1
        /\ SetStore(out.store)
        /\ SetSink(out.sink)
        /\ last_global_detection' = out.last_global_detection
        /\ lastOp' = [op |-> "process_inventory_snapshot", t |-> timestamp,
                      global_runs |-> out.global_runs,
                      found |-> IF out.global_runs = <<>> THEN <<>>
                                ELSE detect_inventory_discrepancies(
                                        out.store, products_data, timestamp).events,
                      log_before |-> Len(events)]
        /\ UNCHANGED <<rtVars, tz_aware, products_data, corr, recent, threadVars>>

NextInventory == InventorySnapshot

SpecInventory == InitInventory /\ [][NextInventory]_vars

\* the items of the snapshot ingested last
LatestItems == inventory_snapshots[Len(inventory_snapshots)].inventory_data

\* the variance is above the limit, compared without dividing
VarianceAbove(actual, expected, limit) ==
    LET difference == IF actual >= expected THEN actual - expected ELSE expected - actual
    IN IF expected >= 10 THEN difference * 100 > limit * expected
       ELSE difference * 10 > limit

\* the positions of the latest snapshot's items that give a finding: counted,
\* in the catalog with a quantity above 0, variance above 5
DiscrepantItems ==
    {i \in 1..Len(LatestItems) :
        /\ LatestItems[i].quantity # None
        /\ LatestItems[i].sku \in DOMAIN products_data
        /\ products_data[LatestItems[i].sku].quantity >= 1
        /\ VarianceAbove(LatestItems[i].quantity,
                         products_data[LatestItems[i].sku].quantity, 5)}

\* C24: when the global detectors run on a snapshot, the inventory detector
\* returns one finding per SKU of the latest snapshot whose variance is
\* strictly above 5 (|actual - expected| * 100 / expected for a catalog
\* quantity >= 10, |actual - expected| * 10 for 1..9), in the snapshot's
\* order, with severity CRITICAL above 20, HIGH above 10, else MEDIUM.  So
\* 94 of 100 gives one MEDIUM finding, 96 and 95 of 100 none, and below 10
\* any difference gives one.
C24_InventoryDiscrepancyExact ==
    (lastOp.op = "process_inventory_snapshot" /\ lastOp.global_runs # <<>>) =>
        /\ Len(lastOp.found) = Cardinality(DiscrepantItems)
        /\ \A k \in 1..Len(lastOp.found) :
            LET item == LatestItems[KthOf(DiscrepantItems, k)]
                expected == products_data[item.sku].quantity
            IN /\ lastOp.found[k].event_name = "Inventory Discrepancy"
               /\ lastOp.found[k].SKU = item.sku
               /\ lastOp.found[k].expected_inventory = expected
               /\ lastOp.found[k].actual_inventory = item.quantity
               /\ lastOp.found[k].severity =
                    IF VarianceAbove(item.quantity, expected, 20) THEN "CRITICAL"
                    ELSE IF VarianceAbove(item.quantity, expected, 10) THEN "HIGH"
                    ELSE "MEDIUM"
        /\ \A q \in {95, 96} : LatestItems = <<Item("A", q)>> => lastOp.found = <<>>
        /\ LatestItems = <<Item("A", 94)>> =>
            Len(lastOp.found) = 1 /\ lastOp.found[1].severity = "MEDIUM"
        /\ \A i \in 1..Len(LatestItems) :
            (LatestItems[i].sku = "B" /\ LatestItems[i].quantity # 8) =>
                \E k \in 1..Len(lastOp.found) : lastOp.found[k].SKU = "B"

\* the detector ran on a snapshot counting 94 of 100 and 7 of 8
C24_Witness ==
    /\ lastOp.op = "process_inventory_snapshot"
    /\ lastOp.global_runs # <<>>
    /\ LatestItems = <<Item("A", 94), Item("B", 7)>>
    /\ Len(lastOp.found) = 2


\* C29: every Inventory Discrepancy finding the detector returned is appended
\* to the event log as one event that carries the finding's SKU and the
\* expected and actual quantities the detector computed, neither of them
\* null.
C29_InventoryFindingLoggedWhole ==
    lastOp.op = "process_inventory_snapshot" =>
        /\ Len(events) = lastOp.log_before + Len(lastOp.found)
        /\ \A k \in 1..Len(lastOp.found) :
            LET logged == events[lastOp.log_before + k].event_data
            IN /\ logged.event_name = "Inventory Discrepancy"
               /\ logged.SKU = lastOp.found[k].SKU
               /\ logged.Expected_Inventory = lastOp.found[k].expected_inventory
               /\ logged.Actual_Inventory = lastOp.found[k].actual_inventory
               /\ logged.Expected_Inventory # None
               /\ logged.Actual_Inventory # None

\* what the code does instead: one event per finding with the finding's SKU,
\* its two quantities null
InventoryFindingLoggedWithoutQuantities ==
    lastOp.op = "process_inventory_snapshot" =>
        /\ Len(events) = lastOp.log_before + Len(lastOp.found)
        /\ \A k \in 1..Len(lastOp.found) :
            LET logged == events[lastOp.log_before + k].event_data
            IN /\ logged.event_name = "Inventory Discrepancy"
               /\ logged.SKU = lastOp.found[k].SKU
               /\ logged.Expected_Inventory = None
               /\ logged.Actual_Inventory = None


----------------------------------------------------------------------------
(* The shop floor: three checkout stations report queue samples, one can   *)
(* report a crash; the staffing and station recommendations are computed   *)
(* from the store.                                                         *)

MaxFloorIngest == 4

FloorStations == {"SCC1", "SCC2", "SCC3"}

\* an empty queue, a busy one, one far above five customers per station
FloorCounts == {0, 2, 21}

FloorInputs ==
    {[ParsedRecord("queue_monitoring", IsoTs(0), station, "Active")
        EXCEPT !.customer_count = count, !.average_dwell_time = 0] :
            station \in FloorStations, count \in FloorCounts}
    \cup {ParsedRecord("product_recognition", IsoTs(0), "SCC3", "System Crash")}

InitFloor ==
    /\ InitCommon
    /\ last_global_detection = 0
    /\ tz_aware = FALSE
    /\ products_data = Catalog

\* add_data of the next record, SAMPLE_INTERVAL after the one before
FloorIngest ==
    \E p \in FloorInputs :
    \E timestamp \in {ingested * SAMPLE_INTERVAL} :
        /\ ingested < MaxFloorIngest
        /\ ingested' = ingested + 1
        /\ SetStore(add_data(Store, [p EXCEPT !.timestamp = IsoTs(timestamp)]))
        /\ lastOp' = [op |-> "add_data", station |-> p.station_id,
                      ts |-> IsoTs(timestamp), type |-> p.type, status |-> p.status]
        /\ UNCHANGED <<rtVars, sinkVars, sysVars, corr, recent, threadVars>>

\* recommend_staffing_needs and recommend_station_actions are called
FloorRecommend ==
    \E timestamp \in {ingested * SAMPLE_INTERVAL} :
    \E st \in {Store} :
        /\ lastOp.op # "recommend"
        /\ SetStore(after_status_loop(after_staffing_loop(st, get_all_stations(st)),
                                      get_all_stations(st)))
        /\ lastOp' = [op |-> "recommend", t |-> timestamp,
                      staffing |-> recommend_staffing_needs(st, timestamp).events,
                      actions |-> recommend_station_actions(st, timestamp).events]
        /\ UNCHANGED <<rtVars, sinkVars, sysVars, ingested, corr, recent, threadVars>>

NextFloor == FloorIngest \/ FloorRecommend

SpecFloor == InitFloor /\ [][NextFloor]_vars

\* the stations the store knows
KnownStations ==
    (DOMAIN pos_transactions) \cup (DOMAIN rfid_readings)
        \cup (DOMAIN queue_data) \cup (DOMAIN product_recognition)

\* the customer counts of the station's queue samples, oldest first
QueueCounts(station_id) ==
    [i \in 1..Len(DictGet(queue_data, station_id, <<>>)) |->
        queue_data[station_id][i].customer_count]

\* the count of the station's latest queue sample, 0 without a sample
LatestCount(station_id) ==
    IF QueueCounts(station_id) = <<>> THEN 0
    ELSE QueueCounts(station_id)[Len(QueueCounts(station_id))]

\* stations with at least 2 customers in their latest sample
BusyStations == {s \in KnownStations : LatestCount(s) >= 2}

\* stations with at least 2 customers in at least 3 of their last 4 samples
\* (a station with fewer than 4 samples is not counted, as in the code)
SustainedBusyStations ==
    {s \in KnownStations :
        /\ Len(QueueCounts(s)) >= 4
        /\ Cardinality({i \in 1..Len(QueueCounts(s)) :
                            /\ i > Len(QueueCounts(s)) - 4
                            /\ QueueCounts(s)[i] >= 2}) >= 3}

AddCashierFound ==
    \E k \in 1..Len(lastOp.staffing) :
        /\ lastOp.staffing[k].event_name = "Staffing Needs"
        /\ lastOp.staffing[k].staff_type = "Cashier"
        /\ lastOp.staffing[k].action = "ADD"

\* C25: recommend_staffing_needs emits the 'add cashier' finding if and only
\* if busy_ratio >= 0.6 or sustained_ratio >= 0.5, both over all known
\* stations, busy_ratio counting the stations whose latest queue sample has
\* at least 2 customers and sustained_ratio those with at least 2 customers
\* in at least 3 of their last 4 samples; nothing without a known station.
C25_AddCashierExact ==
    lastOp.op = "recommend" =>
        /\ AddCashierFound <=>
            /\ KnownStations # {}
            /\ \/ 10 * Cardinality(BusyStations) >= 6 * Cardinality(KnownStations)
               \/ 2 * Cardinality(SustainedBusyStations) >= Cardinality(KnownStations)
        /\ KnownStations = {} => lastOp.staffing = <<>>


\* the known stations whose status is Active, and the idle ones among them
ActiveStations == {s \in KnownStations : DictGet(station_status, s, "Unknown") = "Active"}
IdleStations == {s \in ActiveStations : LatestCount(s) = 0}

\* the customers of the latest samples of all known stations
RECURSIVE CustomersOf(_)
CustomersOf(S) ==
    IF S = {} THEN 0
    ELSE LET s == CHOOSE x \in S : TRUE IN LatestCount(s) + CustomersOf(S \ {s})

\* C26: recommend_station_actions emits at most one Checkout Station Action:
\* OPEN only when the customers per Active station (the customers of all
\* latest samples over the number of Active stations) exceed 5, recommending
\* 1 to 3 stations; CLOSE only when at least 2 Active stations have a latest
\* count of 0 and more than 2 are Active, recommending at least 1 and leaving
\* at least 2 Active; never both; nothing when no station is Active.
C26_AtMostOneStationAction ==
    lastOp.op = "recommend" =>
        /\ Len(lastOp.actions) <= 1
        /\ ActiveStations = {} => lastOp.actions = <<>>
        /\ \A k \in 1..Len(lastOp.actions) :
            LET action == lastOp.actions[k]
                active == Cardinality(ActiveStations)
            IN /\ action.event_name = "Checkout Station Action"
               /\ action.action \in {"OPEN", "CLOSE"}
               /\ action.action = "OPEN" =>
                    /\ CustomersOf(KnownStations) > 5 * active
                    /\ action.recommended_stations \in 1..3
               /\ action.action = "CLOSE" =>
                    /\ Cardinality(IdleStations) >= 2
                    /\ active > 2
                    /\ action.recommended_stations >= 1
                    /\ active - action.recommended_stations >= 2

\* three Active stations are idle and closing one of them was recommended
C26_Witness ==
    /\ lastOp.op = "recommend"
    /\ Cardinality(IdleStations) = 3
    /\ Len(lastOp.actions) = 1
    /\ lastOp.actions[1].action = "CLOSE"


----------------------------------------------------------------------------
(* The detectors without a reference catalog (SpecDetect) *)

\* C27: with an empty catalog no Barcode Switching, Weight Discrepancies or
\* Inventory Discrepancy finding is produced and no detector raises; Scanner
\* Avoidance, the crash, queue and wait detectors return what they return on
\* the same store with the catalog loaded.
C27_NoCatalogNoCatalogFindings ==
    (lastOp.op = "detect" /\ products_data = EmptyDict) =>
        /\ lastOp.found[2] = NoFinding
        /\ lastOp.found[3] = NoFinding
        /\ lastOp.inventory = <<>>
        /\ barcode_switching_body(Store, products_data, lastOp.station, lastOp.t) # Raised
        /\ weight_discrepancies_body(Store, products_data, lastOp.station, lastOp.t) # Raised
        /\ ~inventory_discrepancies_body(Store, products_data, lastOp.t).raised
        /\ \A i \in {1, 4, 5, 6} :
            lastOp.found[i] =
                station_detections(Store, DetectCatalog, lastOp.station, lastOp.t)[i]

\* without a catalog the detectors ran on a store for which the catalog
\* would have given a Barcode Switching finding, and Scanner Avoidance was
\* found all the same
C27_Witness ==
    /\ lastOp.op = "detect"
    /\ products_data = EmptyDict
    /\ lastOp.found[1].event_name = "Scanner Avoidance"
    /\ detect_barcode_switching(Store, DetectCatalog, lastOp.station, lastOp.t).event_name
            = "Barcode Switching"


----------------------------------------------------------------------------
(* Events of an unknown dataset (SpecQuery) *)

\* C28: a raw event whose dataset is none of the five known ones yields no
\* normalized record and changes neither the store nor the event log, no
\* detector runs for it, and the event that follows it is handled as it is
\* on the state before the unknown one.
C28_UnknownDatasetIgnored ==
    /\ [](lastOp.op = "process_event" =>
            /\ lastOp.parsed = NoneRec
            /\ lastOp.runs = <<>>
            /\ lastOp.global_runs = <<>>)
    /\ [][lastOp'.op = "process_event" =>
            /\ storeVars' = storeVars
            /\ sinkVars' = sinkVars
            /\ last_global_detection' = last_global_detection]_vars
    /\ [][(lastOp.op = "process_event" /\ lastOp'.op \in HandlerNames) =>
            \E event \in QueryEvents :
                /\ lastOp'.op = HandlerOf(event)
                /\ Store' = dispatch(System, products_data, tz_aware, event).store
                /\ Sink' = dispatch(System, products_data, tz_aware, event).sink
                /\ Store' # Store]_vars

\* an event of an unknown dataset arrived after a record had been stored
C28_Witness ==
    /\ lastOp.op = "process_event"
    /\ lastOp.dataset = "Weather_data"
    /\ ingested = 2
    /\ ~StoreIsEmpty


----------------------------------------------------------------------------
(* Batch replay: SentinelSystem.process_batch_data (SpecBatch) *)

MaxBatchLines == 2

\* data_files, in the order the dict is walked
BatchDatasets == <<"pos_transactions", "rfid_readings", "queue_monitoring",
                   "product_recognition", "inventory_snapshots">>

BatchLine(ts, station, data) ==
    [timestamp |-> ts, station_id |-> station, status |-> "Active", data |-> data]

\* the lines a file of each dataset may hold; one POS line has a timestamp
\* that does not parse
BatchLines(dataset_name) ==
    CASE dataset_name = "pos_transactions" ->
            {BatchLine(ts, "SCC1", [NoData EXCEPT !.customer_id = "C001", !.sku = "A",
                                                  !.price = 5, !.weight_g = 200]) :
                ts \in {IsoTs(0), IsoTs(TimeUnit), [kind |-> "garbage", t |-> 0]}}
      [] dataset_name = "rfid_readings" ->
            {BatchLine(IsoTs(0), "SCC1", [NoData EXCEPT !.sku = "A", !.location = "Bagging"])}
      [] dataset_name = "queue_monitoring" ->
            {BatchLine(IsoTs(TimeUnit), "SCC1",
                       [NoData EXCEPT !.customer_count = 2, !.average_dwell_time = 40])}
      [] dataset_name = "product_recognition" ->
            {BatchLine(IsoTs(0), "SCC1", NoData)}
      [] OTHER ->
            {BatchLine(IsoTs(0), NoneStr,
                       [NoData EXCEPT !.items = <<[sku |-> "A", quantity |-> 100]>>])}

SeqsUpTo(S, n) == UNION {[1..k -> S] : k \in 0..n}

\* the contents of input_dir: dataset name -> the lines of its file
BatchDirs ==
    [pos_transactions : SeqsUpTo(BatchLines("pos_transactions"), MaxBatchLines),
     rfid_readings : SeqsUpTo(BatchLines("rfid_readings"), MaxBatchLines - 1),
     queue_monitoring : SeqsUpTo(BatchLines("queue_monitoring"), MaxBatchLines - 1),
     product_recognition : SeqsUpTo(BatchLines("product_recognition"), MaxBatchLines - 1),
     inventory_snapshots : SeqsUpTo(BatchLines("inventory_snapshots"), MaxBatchLines - 1)]

\* event = {'dataset': dataset_name, 'payload': data}
BatchEvent(dataset_name, data) == [dataset |-> dataset_name, payload |-> data]

FileEvents(dir, dataset_name) ==
    [i \in 1..Len(dir[dataset_name]) |-> BatchEvent(dataset_name, dir[dataset_name][i])]

\* all_events before the sort: file after file, line after line
all_events_of(dir) ==
    FileEvents(dir, BatchDatasets[1]) \o FileEvents(dir, BatchDatasets[2])
        \o FileEvents(dir, BatchDatasets[3]) \o FileEvents(dir, BatchDatasets[4])
        \o FileEvents(dir, BatchDatasets[5])

\* get_timestamp: the instant of the payload, datetime.min when it does not
\* parse
datetime_min == -1
get_timestamp(event) ==
    IF fromisoformat(event.payload.timestamp).ok
    THEN fromisoformat(event.payload.timestamp).t
    ELSE datetime_min

\* insertion of one event behind the events whose key is not larger
RECURSIVE insert_sorted(_, _)
insert_sorted(sorted, event) ==
    IF sorted = <<>> THEN <<event>>
    ELSE IF get_timestamp(sorted[Len(sorted)]) <= get_timestamp(event)
    THEN Append(sorted, event)
    ELSE Append(insert_sorted(SubSeq(sorted, 1, Len(sorted) - 1), event),
                sorted[Len(sorted)])

\* list.sort(key=get_timestamp): stable
RECURSIVE sort_by_timestamp(_)
sort_by_timestamp(all_events) ==
    IF all_events = <<>> THEN <<>>
    ELSE insert_sorted(sort_by_timestamp(SubSeq(all_events, 1, Len(all_events) - 1)),
                       all_events[Len(all_events)])

\* the sort compares an aware datetime with the naive datetime.min when the
\* timestamps carry an offset and one of them does not parse: TypeError
sort_raises(all_events, aware) ==
    /\ aware
    /\ \E i, j \in 1..Len(all_events) :
        /\ fromisoformat(all_events[i].payload.timestamp).ok
        /\ ~fromisoformat(all_events[j].payload.timestamp).ok

\* the if/elif chain of the replay loop
batch_dispatch(sys, products, aware, event) ==
    CASE event.dataset = "pos_transactions" -> process_pos_transaction(sys, products, event)
      [] event.dataset = "rfid_readings" -> process_rfid_reading(sys, products, event)
      [] event.dataset = "queue_monitoring" -> process_queue_monitoring(sys, products, event)
      [] event.dataset = "product_recognition" ->
            process_product_recognition(sys, products, event)
      [] event.dataset = "inventory_snapshots" ->
            process_inventory_snapshot(sys, products, aware, event)
      [] OTHER -> sys

RECURSIVE replay(_, _, _, _)
replay(sys, products, aware, all_events) ==
    IF all_events = <<>> THEN sys
    ELSE replay(batch_dispatch(sys, products, aware, Head(all_events)),
                products, aware, Tail(all_events))

InitBatch ==
    /\ InitCommon
    /\ last_global_detection = 0
    /\ tz_aware \in BOOLEAN
    /\ products_data = DetectCatalog

\* process_batch_data(input_dir); raised when the sort raises, before any
\* event is handled
ProcessBatch ==
    \E dir \in BatchDirs :
    \E all_events \in {all_events_of(dir)} :
    \E raised \in {sort_raises(all_events, tz_aware)} :
    \E out \in {IF raised THEN System
                ELSE replay(System, products_data, tz_aware,
                            sort_by_timestamp(all_events))} :
        /\ ingested = 0
        /\ ingested' = 1
        /\ SetStore(out.store)
        /\ SetSink(out.sink)
        /\ last_global_detection' = out.last_global_detection
        /\ lastOp' = [op |-> "process_batch_data", raised |-> raised,
                      read |-> all_events,
                      all_events |-> IF raised THEN <<>> ELSE sort_by_timestamp(all_events)]
        /\ UNCHANGED <<rtVars, tz_aware, products_data, corr, recent, threadVars>>

NextBatch == ProcessBatch

SpecBatch == InitBatch /\ [][NextBatch]_vars

\* number of records a bucket map holds
BucketSize(bucket) ==
    Cardinality(UNION {{<<s, i>> : i \in 1..Len(bucket[s])} : s \in DOMAIN bucket})

StoredRecords ==
    BucketSize(pos_transactions) + BucketSize(rfid_readings) + BucketSize(queue_data)
        + BucketSize(product_recognition) + Len(inventory_snapshots)

\* the records read whose timestamp parses
WellFormedRead ==
    Cardinality({i \in 1..Len(lastOp.read) :
                    fromisoformat(lastOp.read[i].payload.timestamp).ok})

\* C30: after a batch replay every well-formed record read from the five
\* files is in the store exactly once, and the events were handled one after
\* the other in non-decreasing timestamp order.
C30_BatchReplayAppendsAll ==
    lastOp.op = "process_batch_data" =>
        /\ ~lastOp.raised
        /\ StoredRecords = WellFormedRead
        /\ \A i, j \in 1..Len(lastOp.all_events) :
              i <= j => get_timestamp(lastOp.all_events[i]) <= get_timestamp(lastOp.all_events[j])

\* what the replay does: whenever the sort does not raise the events are
\* handled in timestamp order, and none of them reaches the store or the log
BatchReplayStoresNothing ==
    lastOp.op = "process_batch_data" =>
        /\ StoreIsEmpty
        /\ events = <<>>
        /\ \A i, j \in 1..Len(lastOp.all_events) :
              i <= j => get_timestamp(lastOp.all_events[i]) <= get_timestamp(lastOp.all_events[j])


----------------------------------------------------------------------------
(* The store fed in timestamp order (SpecChrono) *)

MaxChrono == 3

\* the greatest timestamp ingested so far
HighWater == IF lastOp.op = "init" THEN 0 ELSE lastOp.high

\* add_data of a record that is not earlier than any record before it; a
\* record whose timestamp is rejected has no place in the order
ChronoAdd(p) ==
    /\ ingested < MaxChrono
    /\ accepts(p) => fromisoformat(p.timestamp).t >= HighWater
    /\ SetStore(add_data(Store, p))
    /\ lastOp' = [op |-> "add_data", station |-> p.station_id, ts |-> p.timestamp,
                  type |-> p.type, status |-> p.status,
                  high |-> IF accepts(p) THEN fromisoformat(p.timestamp).t ELSE HighWater]
    /\ ingested' = ingested + 1
    /\ corr' = NoCorr
    /\ UNCHANGED <<rtVars, sinkVars, sysVars, recent, threadVars>>

\* the records of the store, and a snapshot taken while entries are in the
\* window
ChronoInputs ==
    StoreInputs
        \cup {ParsedRecord("inventory_snapshot", IsoTs(MaxTick * TimeUnit), NoneStr, NoneStr)}

ChronoIngest == \E p \in ChronoInputs : ChronoAdd(p)

NextChrono == ChronoIngest

SpecChrono == InitStore /\ [][NextChrono]_vars

IsSorted(dq) ==
    \A i, j \in 1..Len(dq) : i <= j => dq[i].parsed_timestamp <= dq[j].parsed_timestamp

\* C31: when the records arrive in non-decreasing timestamp order, after
\* every accepted ingest with timestamp T (of whatever kind, the inventory
\* snapshot included) every bucket of every station is sorted by timestamp
\* and holds no entry earlier than T - window.
C31_ChronologicalBucketsSortedAndFresh ==
    (lastOp.op = "add_data" /\ accepts([timestamp |-> lastOp.ts])) =>
        \A b \in BucketNames : \A s \in DOMAIN Store[b] :
            /\ IsSorted(Store[b][s])
            /\ \A i \in 1..Len(Store[b][s]) :
                  Store[b][s][i].parsed_timestamp >= lastOp.ts.t - time_window

\* an inventory snapshot has emptied the bucket of one station and left the
\* entry of another station that is still inside the window
C31_Witness ==
    /\ lastOp.op = "add_data"
    /\ lastOp.type = "inventory_snapshot"
    /\ "SCC1" \in DOMAIN rfid_readings
    /\ rfid_readings["SCC1"] = <<>>
    /\ "SCC2" \in DOMAIN pos_transactions
    /\ Len(pos_transactions["SCC2"]) = 1


----------------------------------------------------------------------------
(* get_recent_data and get_all_stations on a growing store (SpecRecent) *)

MaxRecent == 3
MaxLimit == 4

\* records of two kinds for two stations, a snapshot, a record without a
\* station id and one whose timestamp does not parse, all at the arrival
\* instant t, and a snapshot so late that its ingest evicts every entry
RecentInputs(t) ==
    {ParsedRecord(ty, IsoTs(t), s, "Active") :
        ty \in {"pos_transaction", "queue_monitoring"}, s \in Stations}
    \cup {ParsedRecord("inventory_snapshot", IsoTs(t), NoneStr, NoneStr),
          ParsedRecord("inventory_snapshot", IsoTs(t + 2 * time_window), NoneStr, NoneStr),
          ParsedRecord("rfid_reading", IsoTs(t), NoneStr, "Active"),
          ParsedRecord("rfid_reading", [kind |-> "garbage", t |-> 0], "SCC9", "Active")}

\* the stations known before the operation are carried along in lastOp
RecentAdd(p) ==
    /\ ingested < MaxRecent
    /\ SetStore(add_data(Store, p))
    /\ lastOp' = [op |-> "add_data", station |-> p.station_id, ts |-> p.timestamp,
                  type |-> p.type, status |-> p.status,
                  stations_before |-> get_all_stations(Store)]
    /\ ingested' = ingested + 1
    /\ UNCHANGED <<rtVars, sinkVars, sysVars, corr, recent, threadVars>>

RecentIngest == \E p \in RecentInputs(ingested * TimeUnit) : RecentAdd(p)

\* two types get_recent_data knows and one it does not
RecentTypes == {"pos_transactions", "queue_data", "inventory_snapshots"}

GetRecentData(station_id, data_type, limit) ==
    /\ lastOp.op = "add_data"
    /\ SetStore(after_get_recent_data(Store, station_id, data_type))
    /\ lastOp' = [op |-> "get_recent_data", station |-> station_id, type |-> data_type,
                  limit |-> limit,
                  result |-> get_recent_data(Store, station_id, data_type, limit),
                  stations_before |-> get_all_stations(Store)]
    /\ UNCHANGED <<rtVars, sinkVars, sysVars, ingested, corr, recent, threadVars>>

RecentQuery ==
    \E station_id \in QueryStations, data_type \in RecentTypes, limit \in 0..MaxLimit :
        GetRecentData(station_id, data_type, limit)

GetAllStations ==
    /\ lastOp.op = "add_data"
    /\ SetStore(after_get_all_stations(Store))
    /\ lastOp' = [op |-> "get_all_stations", result |-> get_all_stations(Store),
                  stations_before |-> get_all_stations(Store)]
    /\ UNCHANGED <<rtVars, sinkVars, sysVars, ingested, corr, recent, threadVars>>

NextRecent == RecentIngest \/ RecentQuery \/ GetAllStations

SpecRecent == InitStore /\ [][NextRecent]_vars

\* the last k entries of a sequence
LastEntries(seq, k) == SubSeq(seq, Len(seq) - k + 1, Len(seq))

\* C32: get_recent_data(S, type, limit) returns, for every limit >= 0,
\* exactly the last min(limit, n) entries of the bucket, in insertion
\* order, never more than limit entries, and the empty list for an unknown
\* station or an unknown type.
C32_RecentDataIsLastLimit ==
    lastOp.op = "get_recent_data" =>
        IF lastOp.type \notin BucketNames \/ lastOp.station \notin DOMAIN Store[lastOp.type]
        THEN lastOp.result = <<>>
        ELSE /\ lastOp.result =
                    LastEntries(Store[lastOp.type][lastOp.station],
                                Min(lastOp.limit, Len(Store[lastOp.type][lastOp.station])))
             /\ Len(lastOp.result) <= lastOp.limit

\* what the slice [-limit:] gives: the claim's list for limit >= 1, the
\* whole bucket for limit = 0
RecentDataFromLimitOne ==
    lastOp.op = "get_recent_data" =>
        IF lastOp.type \notin BucketNames \/ lastOp.station \notin DOMAIN Store[lastOp.type]
        THEN lastOp.result = <<>>
        ELSE IF lastOp.limit = 0
        THEN lastOp.result = Store[lastOp.type][lastOp.station]
        ELSE lastOp.result =
                LastEntries(Store[lastOp.type][lastOp.station],
                            Min(lastOp.limit, Len(Store[lastOp.type][lastOp.station])))

\* the station the last operation appended a per-station record for
AppendedStation ==
    IF /\ lastOp.op = "add_data"
       /\ accepts([timestamp |-> lastOp.ts])
       /\ lastOp.type \in StationTypes
       /\ lastOp.station # NoneStr
    THEN {lastOp.station} ELSE {}

\* C33: the set of known stations starts empty and changes only by the
\* station of an appended per-station record: it never shrinks, a station
\* whose entries were all evicted stays, and snapshots, rejected records,
\* records without a station id and reads add nothing; get_all_stations
\* returns that set.
C33_KnownStationsEverAppended ==
    /\ lastOp.op = "init" => get_all_stations(Store) = {}
    /\ lastOp.op # "init" =>
            get_all_stations(Store) = lastOp.stations_before \cup AppendedStation
    /\ lastOp.op = "get_all_stations" => lastOp.result = get_all_stations(Store)

\* get_all_stations returned a station whose entries have all been evicted
C33_Witness ==
    /\ lastOp.op = "get_all_stations"
    /\ "SCC1" \in lastOp.result
    /\ \A b \in BucketNames : DictGet(Store[b], "SCC1", <<>>) = <<>>
    /\ inventory_snapshots # <<>>


----------------------------------------------------------------------------
(* Stations that fall silent for more than ten minutes (SpecIdle) *)

\* an instant and one more than UNRESPONSIVE_AFTER seconds later
IdleInstants == {0, UNRESPONSIVE_AFTER + TimeUnit}

\* records of the four per-station kinds, in either order of the instants
IdleEvents ==
    {RawEvent(dataset, IsoTs(t), s, "Active",
              [NoData EXCEPT !.customer_id = "C001", !.sku = "A", !.price = 5,
                             !.weight_g = 200, !.location = "Bagging",
                             !.customer_count = 1, !.average_dwell_time = 10]) :
        dataset \in {"POS_Transactions", "RFID_data", "Queue_monitor", "Product_recognism"},
        t \in IdleInstants, s \in Stations}

InitIdle ==
    /\ InitCommon
    /\ last_global_detection = 0
    /\ tz_aware = FALSE
    /\ products_data = Catalog

IdleIngest == \E event \in IdleEvents : Handle(HandlerOf(event), event)

NextIdle == IdleIngest

SpecIdle == InitIdle /\ [][NextIdle]_vars

\* C34: every run of the station detectors for station S with instant T
\* leaves a state where the last activity of S is T, and the event log never
\* holds a 'Station Unresponsive' event.
C34_NeverUnresponsive ==
    /\ lastOp.op \in HandlerNames =>
            \A i \in 1..Len(lastOp.runs) :
                /\ lastOp.runs[i].station \in DOMAIN last_activity
                /\ last_activity[lastOp.runs[i].station] = lastOp.runs[i].t
    /\ \A i \in 1..Len(events) : events[i].event_data.event_name # "Station Unresponsive"

\* the detectors ran for a station whose record before this one is more than
\* ten minutes older and has been evicted
C34_Witness ==
    /\ lastOp.op = "process_rfid_reading"
    /\ lastOp.runs = <<[station |-> "SCC1", t |-> UNRESPONSIVE_AFTER + TimeUnit]>>
    /\ "SCC1" \in DOMAIN pos_transactions
    /\ pos_transactions["SCC1"] = <<>>
    /\ station_status["SCC1"] = "Active"


----------------------------------------------------------------------------
(* One reading, several ingests (SpecRepeat) *)

MaxRepeat == 3

\* the records of one checkout, SAMPLE_INTERVAL seconds apart: a reading in
\* the scan area and one at the exit, a transaction of the SKU read and one
\* of another SKU, a queue sample, a recognition frame, a transaction of
\* another station, and transactions with an error status, without a
\* station id and with a timestamp that does not parse
RepeatEvents(t) ==
    {RawEvent("RFID_data", IsoTs(t), "SCC1", "Active",
              [NoData EXCEPT !.sku = "A", !.location = "IN_SCAN_AREA"]),
     RawEvent("RFID_data", IsoTs(t), "SCC1", "Active",
              [NoData EXCEPT !.sku = "B", !.location = "EXIT_GATE"]),
     RawEvent("POS_Transactions", IsoTs(t), "SCC1", "Active",
              [NoData EXCEPT !.customer_id = "C001", !.sku = "A", !.price = 5,
                             !.weight_g = 200]),
     RawEvent("POS_Transactions", IsoTs(t), "SCC1", "Active",
              [NoData EXCEPT !.customer_id = "C001", !.sku = "B", !.price = 20,
                             !.weight_g = 300]),
     RawEvent("Queue_monitor", IsoTs(t), "SCC1", "Active",
              [NoData EXCEPT !.customer_count = 1, !.average_dwell_time = 10]),
     RawEvent("Product_recognism", IsoTs(t), "SCC1", "Active", NoData),
     RawEvent("POS_Transactions", IsoTs(t), "SCC2", "Active",
              [NoData EXCEPT !.customer_id = "C002", !.sku = "B", !.price = 20,
                             !.weight_g = 300]),
     RawEvent("POS_Transactions", IsoTs(t), "SCC1", "Read Error",
              [NoData EXCEPT !.customer_id = "C001", !.sku = "B", !.price = 20,
                             !.weight_g = 300]),
     RawEvent("POS_Transactions", IsoTs(t), NoneStr, "Active",
              [NoData EXCEPT !.customer_id = "C001", !.sku = "B", !.price = 20,
                             !.weight_g = 300]),
     RawEvent("POS_Transactions", [kind |-> "garbage", t |-> 0], "SCC1", "Active",
              [NoData EXCEPT !.customer_id = "C001", !.sku = "B", !.price = 20,
                             !.weight_g = 300])}

\* one handler call per step
RepeatHandle(event) ==
    \E sys \in {System} :
    \E parsed_data \in {parse_streaming_event(event)} :
    \E out \in {dispatch(sys, products_data, tz_aware, event)} :
       /\ ingested < MaxRepeat
       /\ ingested' = ingested + 1
       /\ SetStore(out.store)
       /\ SetSink(out.sink)
       /\ last_global_detection' = out.last_global_detection
       /\ lastOp' = [op |-> HandlerOf(event),
                     station |-> parsed_data.station_id,
                     type |-> parsed_data.type,
                     ts |-> parsed_data.timestamp,
                     status |-> parsed_data.status,
                     runs |-> out.runs,
                     global_runs |-> out.global_runs,
                     log_before |-> sys.sink.events]
       /\ UNCHANGED <<rtVars, tz_aware, products_data, corr, recent, threadVars>>

RepeatIngest == \E event \in RepeatEvents(ingested * SAMPLE_INTERVAL) : RepeatHandle(event)

NextRepeat == RepeatIngest

SpecRepeat == InitIdle /\ [][NextRepeat]_vars

\* the events the last handler call appended
Appended == SubSeq(events, Len(lastOp.log_before) + 1, Len(events))

NamedEvents(evs, event_name) ==
    {i \in 1..Len(evs) : evs[i].event_data.event_name = event_name}

\* the last handler call ran the station detectors
Triggering ==
    /\ lastOp.op \in {"process_pos_transaction", "process_rfid_reading",
                      "process_queue_monitoring"}
    /\ lastOp.station # NoneStr
    /\ accepts([timestamp |-> lastOp.ts])

\* C35: findings are not de-duplicated: every POS, RFID or queue ingest for
\* a station whose +-10 s window holds an unmatched reading in the scan area
\* appends one Scanner Avoidance event for that station and the SKU of the
\* first such reading, also when the log holds one already; every other
\* ingest appends none.
C35_ScannerAvoidanceRepeats ==
    lastOp.op \in HandlerNames =>
        /\ IsPrefix(lastOp.log_before, events)
        /\ IF Triggering /\ UnmatchedReadings(lastOp.station, lastOp.ts.t) # {}
           THEN \E i \in NamedEvents(Appended, "Scanner Avoidance") :
                    /\ NamedEvents(Appended, "Scanner Avoidance") = {i}
                    /\ Appended[i].event_data.station_id = lastOp.station
                    /\ \E k \in UnmatchedReadings(lastOp.station, lastOp.ts.t) :
                          /\ \A j \in UnmatchedReadings(lastOp.station, lastOp.ts.t) : k <= j
                          /\ Appended[i].event_data.product_sku =
                                Bucket("rfid_readings", lastOp.station)[k].sku
           ELSE NamedEvents(Appended, "Scanner Avoidance") = {}

\* one reading in the store, three Scanner Avoidance events for it in the log
C35_Witness ==
    /\ lastOp.op = "process_queue_monitoring"
    /\ Len(Bucket("rfid_readings", "SCC1")) = 1
    /\ Cardinality(NamedEvents(events, "Scanner Avoidance")) = 3
    /\ Cardinality(NamedEvents(Appended, "Scanner Avoidance")) = 1

FraudNames == {"Scanner Avoidance", "Barcode Switching", "Weight Discrepancies"}

\* C36: the ingest of a POS transaction with a station id, a timestamp that
\* parses and status 'Active' appends exactly one 'Success Operation' event,
\* behind every finding of that ingest and whether or not a fraud finding
\* is among them; no other ingest appends one.
C36_SuccessOperationPerActivePos ==
    lastOp.op \in HandlerNames =>
        IF /\ lastOp.op = "process_pos_transaction"
           /\ lastOp.station # NoneStr
           /\ accepts([timestamp |-> lastOp.ts])
           /\ lastOp.status = "Active"
        THEN /\ Appended # <<>>
             /\ NamedEvents(Appended, "Success Operation") = {Len(Appended)}
             /\ Appended[Len(Appended)].event_data.station_id = lastOp.station
        ELSE NamedEvents(Appended, "Success Operation") = {}

\* a transaction that a Scanner Avoidance finding came with is reported as
\* a success behind the finding
C36_Witness ==
    /\ lastOp.op = "process_pos_transaction"
    /\ lastOp.status = "Active"
    /\ Len(Appended) = 2
    /\ Appended[1].event_data.event_name \in FraudNames
    /\ Appended[2].event_data.event_name = "Success Operation"


----------------------------------------------------------------------------
(* StreamingClient._stream_loop on the bytes of the socket (SpecBytes) *)
(* One iteration of the loop is one step: recv, decode, split, and the     *)
(* dispatch of every complete line of the buffer.                          *)

MaxStreamLines == 3
MaxChunkBytes == 4

\* the events the server sends
EventQ ==
    RawEvent("Queue_monitor", IsoTs(0), "SCC1", "Active",
             [NoData EXCEPT !.customer_count = 4, !.average_dwell_time = 30])
EventP ==
    RawEvent("RFID_data", IsoTs(0), "SCC2", "Active",
             [NoData EXCEPT !.sku = "B", !.location = "IN_SCAN_AREA"])
EventI ==
    RawEvent("Current_inventory_data", IsoTs(global_detection_interval), NoneStr, NoneStr,
             [NoData EXCEPT !.items = <<[sku |-> "A", quantity |-> 94]>>])
\* a JSON text that is valid and is no object
JsonNumber == [json |-> "number"]

\* The bytes of a line. "q1" "q2" are the two halves of the text of EventQ;
\* "u1" "u2" are the two bytes of one UTF-8 character, standing for the text
\* of EventP, which has such a character in it; "i" is the text of EventI,
\* "n" the text of a number, "x" a text that is no JSON, "sp" a blank.
LineTexts == {<<"q1", "q2">>, <<"u1", "u2">>, <<"i">>, <<"n">>, <<"x">>, <<"sp">>}

\* bytes.decode('utf-8') of one chunk raises UnicodeDecodeError when the
\* chunk ends inside a character or begins inside one
decode_raises(data) ==
    \E k \in 1..Len(data) :
        \/ data[k] = "u1" /\ (k = Len(data) \/ data[k + 1] # "u2")
        \/ data[k] = "u2" /\ (k = 1 \/ data[k - 1] # "u1")

\* str.split('\n'): the pieces between the newlines, the last one is what
\* follows the last newline
RECURSIVE split_newline(_, _, _)
split_newline(text, piece, pieces) ==
    IF text = <<>> THEN Append(pieces, piece)
    ELSE IF Head(text) = "nl"
    THEN split_newline(Tail(text), <<>>, Append(pieces, piece))
    ELSE split_newline(Tail(text), Append(piece, Head(text)), pieces)

\* str.strip()
RECURSIVE lstrip(_)
lstrip(line) == IF line # <<>> /\ Head(line) = "sp" THEN lstrip(Tail(line)) ELSE line
RECURSIVE rstrip(_)
rstrip(line) ==
    IF line # <<>> /\ line[Len(line)] = "sp"
    THEN rstrip(SubSeq(line, 1, Len(line) - 1)) ELSE line
strip(line) == lstrip(rstrip(line))

\* json.loads(line): blanks around the value are allowed; ok is FALSE when
\* JSONDecodeError is raised
json_loads(line) ==
    CASE strip(line) = <<"q1", "q2">> -> [ok |-> TRUE, value |-> EventQ]
      [] strip(line) = <<"u1", "u2">> -> [ok |-> TRUE, value |-> EventP]
      [] strip(line) = <<"i">> -> [ok |-> TRUE, value |-> EventI]
      [] strip(line) = <<"n">> -> [ok |-> TRUE, value |-> JsonNumber]
      [] OTHER -> [ok |-> FALSE, value |-> JsonNumber]

\* event.get exists: the value is a dict
is_dict(value) == "json" \notin DOMAIN value

\* "for line in lines[:-1]": a blank line and a line json.loads rejects are
\* passed over; _process_event on a value that is no dict raises
\* AttributeError, which leaves the for loop and the while loop
RECURSIVE for_lines(_, _, _, _)
for_lines(state, products, aware, rest) ==
    IF rest = <<>> THEN state
    ELSE IF strip(Head(rest)) = <<>> \/ ~json_loads(Head(rest)).ok
    THEN for_lines(state, products, aware, Tail(rest))
    ELSE IF ~is_dict(json_loads(Head(rest)).value)
    THEN [state EXCEPT !.raised = TRUE,
                       !.dispatched = Append(@, json_loads(Head(rest)).value)]
    ELSE for_lines([state EXCEPT !.sys = dispatch(@, products, aware,
                                                  json_loads(Head(rest)).value),
                                 !.dispatched = Append(@, json_loads(Head(rest)).value)],
                   products, aware, Tail(rest))

x_lines(n) == [1..n -> LineTexts]

RECURSIVE join_lines(_)
join_lines(texts) ==
    IF texts = <<>> THEN <<>> ELSE Head(texts) \o <<"nl">> \o join_lines(Tail(texts))

\* what the server sends before it closes: some lines, each with its
\* newline, and possibly the beginning of one more
ByteStreams ==
    {join_lines(texts) \o tail :
        texts \in UNION {x_lines(n) : n \in 0..MaxStreamLines}, tail \in {<<>>, <<"q1">>}}

\* the stream thread is in its loop, nothing has been received
InitBytes ==
    /\ StoreIsEmpty
    /\ events = <<>>
    /\ event_counter = 0
    /\ last_global_detection = 0
    /\ tz_aware \in BOOLEAN
    /\ products_data = Catalog
    /\ lastOp \in {[op |-> "connect", pending |-> stream, received |-> <<>>,
                    dispatched |-> <<>>, error |-> NoneStr] : stream \in ByteStreams}
    /\ ingested = 0
    /\ corr = NoCorr
    /\ recent = <<>>
    /\ pc = [t \in Threads |-> IF t = "stream" THEN "while" ELSE "loop"]
    /\ loc = [t \in Threads |-> IF t = "stream" THEN [buffer |-> <<>>] ELSE NoLoc]
    /\ inflight = NoInflight
    /\ seen = NoSeen
    /\ now = 0
    /\ running = TRUE
    /\ socket_closed = FALSE
    /\ lines = <<>>
    /\ delivered = 0
    /\ run_duration = None

\* one iteration of "while self.running" in which recv returns the next n
\* bytes
StreamRecv(n) ==
    /\ pc["stream"] = "while"
    /\ running
    /\ n <= Len(lastOp.pending)
    /\ \E data \in {SubSeq(lastOp.pending, 1, n)} :
       \E pieces \in {split_newline(loc["stream"].buffer \o data, <<>>, <<>>)} :
       \E out \in {IF decode_raises(data)
                   THEN [sys |-> System, dispatched |-> lastOp.dispatched, raised |-> TRUE]
                   ELSE for_lines([sys |-> System, dispatched |-> lastOp.dispatched,
                                   raised |-> FALSE],
                                  products_data, tz_aware,
                                  SubSeq(pieces, 1, Len(pieces) - 1))} :
        /\ SetStore(out.sys.store)
        /\ SetSink(out.sys.sink)
        /\ last_global_detection' = out.sys.last_global_detection
        /\ loc' = [loc EXCEPT !["stream"] =
                      [buffer |-> IF decode_raises(data) THEN @.buffer
                                  ELSE pieces[Len(pieces)]]]
        /\ pc' = [pc EXCEPT !["stream"] = IF out.raised THEN "done" ELSE "while"]
        /\ socket_closed' = out.raised
        /\ delivered' = delivered + 1
        /\ lastOp' = [op |-> "recv",
                      pending |-> SubSeq(lastOp.pending, n + 1, Len(lastOp.pending)),
                      received |-> lastOp.received \o data,
                      dispatched |-> out.dispatched,
                      error |-> IF decode_raises(data) THEN "UnicodeDecodeError"
                                ELSE IF out.raised THEN "AttributeError" ELSE NoneStr]
        /\ UNCHANGED <<tz_aware, products_data, ingested, corr, recent, inflight, seen,
                       now, running, lines, run_duration>>

StreamRecvSome == \E n \in 1..MaxChunkBytes : StreamRecv(n)

\* the server has closed and everything was read: recv returns b'', break,
\* and the finally clause closes the socket
StreamEof ==
    /\ pc["stream"] = "while"
    /\ running
    /\ lastOp.pending = <<>>
    /\ pc' = [pc EXCEPT !["stream"] = "done"]
    /\ socket_closed' = TRUE
    /\ lastOp' = [lastOp EXCEPT !.op = "eof"]
    /\ UNCHANGED <<RTIdle, now, running, lines, delivered, run_duration>>

NextBytes == StreamRecvSome \/ StreamEof

SpecBytes == InitBytes /\ [][NextBytes]_vars

\* the values of the complete, non-blank, valid-JSON lines of a text
RECURSIVE ValidValues(_)
ValidValues(pieces) ==
    IF pieces = <<>> THEN <<>>
    ELSE IF strip(Head(pieces)) # <<>> /\ json_loads(Head(pieces)).ok
    THEN <<json_loads(Head(pieces)).value>> \o ValidValues(Tail(pieces))
    ELSE ValidValues(Tail(pieces))

CompleteLines(text) ==
    SubSeq(split_newline(text, <<>>, <<>>), 1, Len(split_newline(text, <<>>, <<>>)) - 1)

TrailingLine(text) == split_newline(text, <<>>, <<>>)[Len(split_newline(text, <<>>, <<>>))]

\* C37: whatever the split into chunks, the values dispatched so far are
\* those of the complete non-blank valid-JSON lines received so far, once
\* each and in order; the buffer is the incomplete line at the end of what
\* was received; and the loop ends only when the server has closed, so no
\* line stops the dispatch of the lines behind it.
C37_EveryLineDispatchedOnce ==
    /\ lastOp.dispatched = ValidValues(CompleteLines(lastOp.received))
    /\ loc["stream"].buffer = TrailingLine(lastOp.received)
    /\ pc["stream"] = "done" => (lastOp.op = "eof" /\ lastOp.pending = <<>>)

\* the same, as long as no chunk has cut a character in two and no line
\* holds a JSON value that is not an object
StreamDispatchOfObjects ==
    (lastOp.error = NoneStr
     /\ \A k \in 1..Len(lastOp.dispatched) : is_dict(lastOp.dispatched[k])) =>
        /\ lastOp.dispatched = ValidValues(CompleteLines(lastOp.received))
        /\ loc["stream"].buffer = TrailingLine(lastOp.received)
        /\ pc["stream"] = "done" => (lastOp.op = "eof" /\ lastOp.pending = <<>>)


----------------------------------------------------------------------------
(* Global detection on the ingest of a snapshot (Spec) *)

\* the handler call of this step ingests a snapshot whose timestamp parses
\* and is at least 60 s after the last global detection
SnapshotDue ==
    /\ lastOp'.op = "process_inventory_snapshot"
    /\ accepts([timestamp |-> lastOp'.ts])
    /\ lastOp'.ts.t - last_global_detection >= global_detection_interval

\* the global detectors ran once with the snapshot's instant, on the store
\* that holds the snapshot, their findings were appended to the log, and the
\* last global detection is the snapshot's instant
GlobalRunAtSnapshot ==
    /\ lastOp'.global_runs = <<lastOp'.ts.t>>
    /\ last_global_detection' = lastOp'.ts.t
    /\ Sink' = add_detection_results(
                    Sink, run_global_detections(Store', products_data, lastOp'.ts.t).events,
                    lastOp'.ts.t)

\* C38: the ingest of an inventory snapshot with a timestamp T at least 60 s
\* after the last global detection runs the three global detectors with T,
\* appends their findings and sets the last global detection to T.
C38_SnapshotDrivesGlobalDetection ==
    [][SnapshotDue => GlobalRunAtSnapshot]_vars

\* the same for timestamps without an offset; with an offset the handler
\* runs no detector and leaves the log and the instant as they are
SnapshotDrivesGlobalDetectionWhenNaive ==
    [][SnapshotDue =>
            IF tz_aware
            THEN /\ lastOp'.global_runs = <<>>
                 /\ last_global_detection' = last_global_detection
                 /\ Sink' = Sink
            ELSE GlobalRunAtSnapshot]_vars


----------------------------------------------------------------------------
(* Termination of start_real_time_processing (SpecRTFair) *)

\* C39: with a positive duration the real-time loop is left and the function
\* returns; no iteration starts once more than the duration has elapsed;
\* the function returns only through the finally clause, whose
\* stop_streaming is the single step from there to the return, on the
\* duration path as on the interrupt path; and when the stream cannot be
\* started the function has returned False with no global detection run,
\* no stream thread and nothing logged.
C39_RealTimeLoopTerminates ==
    /\ (pc["main"] = "loop" /\ run_duration # None /\ run_duration > 0)
            ~> (pc["main"] = "returned")
    /\ [][now' # now => ~duration_over]_vars
    /\ [][pc'["main"] # pc["main"] =>
            \/ pc["main"] = "idle" /\ pc'["main"] \in {"loop", "failed"}
            \/ pc["main"] = "loop" /\ pc'["main"] = "finally"
            \/ /\ pc["main"] = "finally" /\ pc'["main"] = "returned"
               /\ lastOp'.op = "stop_streaming"
               /\ running /\ ~running']_vars
    /\ [](pc["main"] = "failed" =>
            /\ ~running
            /\ pc["stream"] = "idle"
            /\ last_global_detection = start_time
            /\ events = <<>>)

\* the function has returned because the duration had elapsed, after ticks
\* that ran the global detectors
C39_Witness ==
    /\ pc["main"] = "returned"
    /\ run_duration # None
    /\ now - start_time > run_duration
    /\ ~running
    /\ socket_closed

====
